---- MODULE Spec2Model ----
(***************************************************************************)
(* A model of vipex (src/src/main.ts): a fluent builder whose components   *)
(* mutate one nested options document.  The document is modelled by value: *)
(* every JavaScript value is a tagged record [t |-> tag, v |-> payload],   *)
(* a mapping's payload is a function from property names to values, and an *)
(* in-place write through a reference is a write-back at the place the     *)
(* reference was read from.                                                *)
(***************************************************************************)
EXTENDS Integers, Sequences, FiniteSets, TLC

VARIABLES
    tree,    \* Chart._options, the shared options document
    pre,     \* the document as it was when the last operation started
    last,    \* the last operation: its name, the instance it was called on, its argument
    budget,  \* operations the run may still perform
    ret,     \* what the last operation returned, or the error it raised
    cache,   \* PlotOptionsManager._bar, _pie, _radialBar, _heatmap: 0 when undefined
    made,    \* the plot-type component instances the manager has constructed
    root,    \* the identity of the object Chart._options refers to
    held,    \* the identity a caller got from the options accessor, 0 before any read
    seen,    \* the document that caller sees through the reference it holds
    kind,    \* the chart type the container was constructed with
    heap,    \* the objects of a run that tracks identity: object number i is heap[i]
    given    \* the config objects the caller has passed, each with its content then

vars == <<tree, pre, last, budget, ret, cache, made, root, held, seen, kind, heap, given>>

----------------------------------------------------------------------------
(* Bounds of the model.                                                    *)

\* operations in a run over every builder operation
MaxSteps == 2
\* operations in a run over the axis component and writes to the yaxis slot
MaxAxisSteps == 3
\* operations in a run of the end-to-end scenario's six setters
MaxScenarioSteps == 6
\* operations in a run over the container's own setters
MaxChartSteps == 3
\* path-set calls in a run
MaxPathSteps == 2
\* operations in a run over the plot-options manager and the plot-type setters
MaxPlotSteps == 3
\* operations in a run on a container of any of the chart kinds
MaxKindSteps == 1
\* operations in a run over the axis setters and scalar writes to the yaxis slot
MaxSlotSteps == 2
\* operations in a run over reads of the options accessor and setters
MaxLiveSteps == 3
\* setter calls in a run over every setter of every component
MaxFluentSteps == 1
\* operations in a run on a Donut or a Bar container
MaxConvenienceSteps == 2
\* operations in a run over the container's setters and removals of the chart
\* block
MaxFallbackSteps == 3
\* pairs of setter calls in a run
MaxCommuteSteps == 1
\* operations in a run over every setter, optional config fields also passed
\* as undefined
MaxScaffoldSteps == 2

----------------------------------------------------------------------------
(* JavaScript values.                                                      *)

Undef == [t |-> "undef", v |-> {}]
Null == [t |-> "null", v |-> {}]
Str(s) == [t |-> "str", v |-> s]
Num(n) == [t |-> "num", v |-> n]
Bool(b) == [t |-> "bool", v |-> b]
Obj(f) == [t |-> "obj", v |-> f]
Arr(s) == [t |-> "arr", v |-> s]
\* a function value (a formatter callback), known by its name only
Fn(name) == [t |-> "fn", v |-> name]

\* the TypeError a strict-mode write to a property of a primitive, of null or
\* of undefined raises, and a call of something that is not a function
TypeError == [t |-> "throw", v |-> "TypeError"]

EmptyMap == [k \in {} |-> Undef]
\* the literal {}
EmptyObj == Obj(EmptyMap)

IsObj(x) == x.t = "obj"
IsArr(x) == x.t = "arr"

\* JavaScript truthiness, as `!x`, `x || y` and `if (x)` test it
Truthy(x) ==
    CASE x.t = "undef" -> FALSE
      [] x.t = "null" -> FALSE
      [] x.t = "bool" -> x.v
      [] x.t = "num" -> x.v # 0
      [] x.t = "str" -> x.v # ""
      [] OTHER -> TRUE

\* the property read x[k] (and x?.[k]): undefined when x has no such property
Get(x, k) == IF IsObj(x) /\ k \in DOMAIN x.v THEN x.v[k] ELSE Undef

\* the property names of the mapping x
Keys(x) == IF IsObj(x) THEN DOMAIN x.v ELSE {}

\* the assignment x[k] = val: it writes the mapping x and, main.ts being a
\* module and so strict-mode code, raises when x is anything else; an error
\* raised while val was computed is raised here as well
Set(x, k, val) ==
    IF ~IsObj(x) \/ val = TypeError THEN TypeError
    ELSE Obj([kk \in DOMAIN x.v \cup {k} |-> IF kk = k THEN val ELSE x.v[kk]])

\* the own enumerable properties an object spread ...x copies
Spread(x) ==
    CASE IsObj(x) -> x.v
      [] IsArr(x) ->
            [k \in {ToString(i - 1) : i \in DOMAIN x.v} |->
                x.v[CHOOSE i \in DOMAIN x.v : ToString(i - 1) = k]]
      [] OTHER -> EmptyMap

\* MergeMap with a's surviving keys dropped: the result holds b's keys only
MergeMapClobber(a, b) == b

\* the properties of { ...a, ...b }: b's keys win, a's other keys survive
MergeMap(a, b) ==
    [k \in DOMAIN a \cup DOMAIN b |-> IF k \in DOMAIN b THEN b[k] ELSE a[k]]

\* the object literal { ...a, ...b }
Merge(a, b) == Obj(MergeMap(Spread(a), Spread(b)))

\* OrEmpty without the test: a fresh {} whatever x holds
OrEmptyAlways(x) == EmptyObj

\* x || {}
OrEmpty(x) == IF Truthy(x) THEN x ELSE EmptyObj

\* x.k = x.k || {}
Ensure(x, k) == Set(x, k, OrEmpty(Get(x, k)))

\* the read x.a.b.c along a path of property names
RECURSIVE GetPath(_, _)
GetPath(x, path) ==
    IF path = <<>> THEN x ELSE GetPath(Get(x, Head(path)), Tail(path))

\* the write x.a.b.c = val through mappings that exist along the path
RECURSIVE SetPath(_, _, _)
SetPath(x, path, val) ==
    IF Len(path) = 1 THEN Set(x, path[1], val)
    ELSE Set(x, Head(path), SetPath(Get(x, Head(path)), Tail(path), val))

----------------------------------------------------------------------------
(* ChartComponent (main.ts 32-84).                                         *)

\* path.split('.') on a path given as its tokens, a separator "." or the text
\* between two separators: the text before the first separator, then the
\* split of what follows it; no text between two separators is the segment ""
RECURSIVE Split(_)
Split(path) ==
    IF \E i \in DOMAIN path : path[i] = "."
    THEN LET i == CHOOSE j \in DOMAIN path :
                      path[j] = "." /\ \A k \in 1..(j - 1) : path[k] # "."
         IN  <<IF i = 1 THEN "" ELSE path[1]>> \o Split(SubSeq(path, i + 1, Len(path)))
    ELSE <<IF path = <<>> THEN "" ELSE path[1]>>

\* setOption's walk over parts from the object o: every part but the last is
\* created as {} when undefined or null and descended into, the last is assigned
RECURSIVE setOption(_, _, _)
setOption(o, parts, value) ==
    IF Len(parts) = 1 THEN Set(o, parts[1], value)
    ELSE LET child == Get(o, Head(parts))
         IN  Set(o, Head(parts),
                 setOption(IF child = Undef \/ child = Null THEN EmptyObj ELSE child,
                           Tail(parts), value))

----------------------------------------------------------------------------
(* Axis (main.ts 94-293).                                                  *)

AxisTypes == {"xaxis", "yaxis"}

\* Axis.getAxisConfig: the mapping an axis component reads and writes
getAxisConfig(o, axisType) ==
    IF axisType = "xaxis" THEN Get(o, "xaxis")
    ELSE IF IsArr(Get(o, "yaxis"))
         THEN IF Len(Get(o, "yaxis").v) > 0 THEN Get(o, "yaxis").v[1] ELSE Undef
         ELSE Get(o, "yaxis")

\* putAxisConfig resolving a sequence to its last element instead of its first
putAxisConfigLast(o, axisType, cfg) ==
    IF axisType = "xaxis" \/ cfg = TypeError THEN Set(o, "xaxis", cfg)
    ELSE IF IsArr(Get(o, "yaxis"))
         THEN Set(o, "yaxis",
                  Arr([Get(o, "yaxis").v EXCEPT ![Len(Get(o, "yaxis").v)] = cfg]))
         ELSE Set(o, "yaxis", cfg)

\* a write through the reference getAxisConfig returned: the document with the
\* resolved axis mapping replaced by cfg
putAxisConfig(o, axisType, cfg) ==
    IF axisType = "xaxis" \/ cfg = TypeError THEN Set(o, "xaxis", cfg)
    ELSE IF IsArr(Get(o, "yaxis"))
         THEN Set(o, "yaxis", Arr([Get(o, "yaxis").v EXCEPT ![1] = cfg]))
         ELSE Set(o, "yaxis", cfg)

\* Axis_ensureSlot turning an empty yaxis sequence into a single mapping
Axis_ensureSlotAsMapping(o, axisType) ==
    IF axisType = "yaxis"
    THEN IF ~Truthy(Get(o, "yaxis")) THEN Set(o, "yaxis", EmptyObj)
         ELSE IF IsArr(Get(o, "yaxis")) /\ Len(Get(o, "yaxis").v) = 0
              THEN Set(o, "yaxis", EmptyObj)
              ELSE o
    ELSE IF ~Truthy(Get(o, "xaxis")) THEN Set(o, "xaxis", EmptyObj) ELSE o

\* the constructor's first half: make the slot exist
Axis_ensureSlot(o, axisType) ==
    IF axisType = "yaxis"
    THEN IF ~Truthy(Get(o, "yaxis")) THEN Set(o, "yaxis", EmptyObj)
         ELSE IF IsArr(Get(o, "yaxis")) /\ Len(Get(o, "yaxis").v) = 0
              THEN Set(o, "yaxis", Arr(<<EmptyObj>>))
              ELSE o
    ELSE IF ~Truthy(Get(o, "xaxis")) THEN Set(o, "xaxis", EmptyObj) ELSE o

\* the constructor's second half: the sub-mappings of the resolved axis
Axis_scaffold(cfg) ==
    LET c1 == Ensure(cfg, "title")
        c2 == Ensure(c1, "labels")
        c3 == Set(c2, "labels", Ensure(Get(c2, "labels"), "style"))
        c4 == Ensure(c3, "axisBorder")
        c5 == Ensure(c4, "axisTicks")
    IN  Ensure(c5, "crosshairs")

\* new Axis(chart, axisType)
Axis_constructor(o, axisType) ==
    LET o1 == Axis_ensureSlot(o, axisType)
        cfg == getAxisConfig(o1, axisType)
    IN  IF Truthy(cfg) THEN putAxisConfig(o1, axisType, Axis_scaffold(cfg)) ELSE o1

\* axis.title(text)
Axis_title(o, axisType, text) ==
    LET cfg == getAxisConfig(o, axisType)
    IN  IF Truthy(Get(cfg, "title"))
        THEN putAxisConfig(o, axisType, SetPath(cfg, <<"title", "text">>, text))
        ELSE o

\* axis.categories(categories)
Axis_categories(o, axisType, categories) ==
    LET cfg == getAxisConfig(o, axisType)
    IN  IF Truthy(cfg) THEN putAxisConfig(o, axisType, Set(cfg, "categories", categories))
        ELSE o

\* axis.type(type)
Axis_type(o, axisType, type) ==
    LET cfg == getAxisConfig(o, axisType)
    IN  IF Truthy(cfg) THEN putAxisConfig(o, axisType, Set(cfg, "type", type)) ELSE o

\* axis.labels(config)
Axis_labels(o, axisType, config) ==
    LET cfg == getAxisConfig(o, axisType)
        c1 == Ensure(cfg, "labels")
        c2 == Set(c1, "labels", Merge(Get(c1, "labels"), config))
        l3 == Ensure(Get(c2, "labels"), "style")
        l4 == Set(l3, "style", Merge(Get(l3, "style"), Get(config, "style")))
    IN  IF ~Truthy(cfg) THEN o
        ELSE IF Truthy(Get(config, "style"))
             THEN putAxisConfig(o, axisType, Set(c2, "labels", l4))
             ELSE putAxisConfig(o, axisType, c2)

\* axis.range(min, max)
Axis_range(o, axisType, min, max) ==
    LET cfg == getAxisConfig(o, axisType)
    IN  IF Truthy(cfg)
        THEN putAxisConfig(o, axisType, Set(Set(cfg, "min", min), "max", max))
        ELSE o

\* axis.tickAmount(amount)
Axis_tickAmount(o, axisType, amount) ==
    LET cfg == getAxisConfig(o, axisType)
    IN  IF Truthy(cfg) THEN putAxisConfig(o, axisType, Set(cfg, "tickAmount", amount))
        ELSE o

\* axis.axisBorder(config)
Axis_axisBorder(o, axisType, config) ==
    LET cfg == getAxisConfig(o, axisType)
    IN  IF Truthy(cfg)
        THEN putAxisConfig(o, axisType,
                 Set(cfg, "axisBorder", Merge(OrEmpty(Get(cfg, "axisBorder")), config)))
        ELSE o

\* axis.axisTicks(config)
Axis_axisTicks(o, axisType, config) ==
    LET cfg == getAxisConfig(o, axisType)
    IN  IF Truthy(cfg)
        THEN putAxisConfig(o, axisType,
                 Set(cfg, "axisTicks", Merge(OrEmpty(Get(cfg, "axisTicks")), config)))
        ELSE o

\* axis.crosshairs(config)
Axis_crosshairs(o, axisType, config) ==
    LET cfg == getAxisConfig(o, axisType)
    IN  IF Truthy(cfg)
        THEN putAxisConfig(o, axisType,
                 Set(cfg, "crosshairs", Merge(OrEmpty(Get(cfg, "crosshairs")), config)))
        ELSE o

----------------------------------------------------------------------------
(* Leaf components (main.ts 299-927).                                      *)

\* o.<k> = {} when !o.<k>
EnsureKey(o, k) == IF ~Truthy(Get(o, k)) THEN Set(o, k, EmptyObj) ELSE o

\* x.a.b = { ...x.a.b, ...config }
MergeAt(o, path, config) == SetPath(o, path, Merge(GetPath(o, path), config))

\* x.a.b = { ...(x.a.b || {}), ...config }
MergeOrEmptyAt(o, path, config) ==
    SetPath(o, path, Merge(OrEmpty(GetPath(o, path)), config))

\* new Tooltip(chart)
Tooltip_constructor(o) ==
    LET o1 == EnsureKey(o, "tooltip")
    IN  Set(o1, "tooltip", Ensure(Ensure(Ensure(Get(o1, "tooltip"), "style"), "x"), "y"))

\* new Legend(chart)
Legend_constructor(o) ==
    LET o1 == EnsureKey(o, "legend")
    IN  Set(o1, "legend",
            Ensure(Ensure(Ensure(Get(o1, "legend"), "labels"), "markers"), "itemMargin"))

\* new Grid(chart)
Grid_constructor(o) ==
    LET o1 == EnsureKey(o, "grid")
        g1 == Ensure(Get(o1, "grid"), "xaxis")
        g2 == Set(g1, "xaxis", Ensure(Get(g1, "xaxis"), "lines"))
        g3 == Ensure(g2, "yaxis")
        g4 == Set(g3, "yaxis", Ensure(Get(g3, "yaxis"), "lines"))
    IN  Set(o1, "grid", Ensure(g4, "padding"))

\* grid.xaxis(config) as a shallow merge of config into grid.xaxis
Grid_xaxisShallow(o, config) == MergeAt(o, <<"grid", "xaxis">>, config)

\* grid.xaxis(config): only config.lines is read
Grid_xaxis(o, config) ==
    LET g == Ensure(Get(o, "grid"), "xaxis")
    IN  Set(o, "grid",
            SetPath(g, <<"xaxis", "lines">>,
                    Merge(OrEmpty(GetPath(g, <<"xaxis", "lines">>)), Get(config, "lines"))))

\* grid.yaxis(config): only config.lines is read
Grid_yaxis(o, config) ==
    LET g == Ensure(Get(o, "grid"), "yaxis")
    IN  Set(o, "grid",
            SetPath(g, <<"yaxis", "lines">>,
                    Merge(OrEmpty(GetPath(g, <<"yaxis", "lines">>)), Get(config, "lines"))))

\* new DataLabels(chart)
DataLabels_constructor(o) ==
    LET o1 == EnsureKey(o, "dataLabels")
    IN  Set(o1, "dataLabels", Ensure(Ensure(Get(o1, "dataLabels"), "style"), "background"))

\* new Markers(chart)
Markers_constructor(o) ==
    LET o1 == EnsureKey(o, "markers")
    IN  Set(o1, "markers", Ensure(Get(o1, "markers"), "hover"))

\* new Theme(chart)
Theme_constructor(o) ==
    LET o1 == EnsureKey(o, "theme")
    IN  Set(o1, "theme", Ensure(Get(o1, "theme"), "monochrome"))

----------------------------------------------------------------------------
(* Plot-type components and their manager (main.ts 933-1184).              *)

PlotTypes == {"bar", "pie", "radialBar", "heatmap"}

\* ensurePlotOptions(chart)
ensurePlotOptions(o) == EnsureKey(o, "plotOptions")

\* ensurePlotOptionType creating the key of every plot type, not of type alone
ensurePlotOptionTypeEager(o, type) ==
    LET o1 == ensurePlotOptions(o)
    IN  Set(o1, "plotOptions",
            EnsureKey(EnsureKey(EnsureKey(EnsureKey(Get(o1, "plotOptions"),
                "bar"), "pie"), "radialBar"), "heatmap"))

\* ensurePlotOptionType making plotOptions anew with the key of type alone
ensurePlotOptionTypeAlone(o, type) ==
    Set(o, "plotOptions",
        Obj([k \in {type} |-> OrEmpty(GetPath(o, <<"plotOptions", type>>))]))

\* ensurePlotOptionType(chart, type)
ensurePlotOptionType(o, type) ==
    LET o1 == ensurePlotOptions(o)
    IN  Set(o1, "plotOptions", EnsureKey(Get(o1, "plotOptions"), type))

\* new PlotOptionsManager(chart)
PlotOptionsManager_constructor(o) == ensurePlotOptions(o)

\* a scalar setter writing its field beside the plot types, under plotOptions
PlotFieldUntyped(o, type, field, val) ==
    SetPath(ensurePlotOptionType(o, type), <<"plotOptions", field>>, val)

\* a scalar setter of a plot-type component: ensure<Type>Options().field = val
PlotField(o, type, field, val) ==
    SetPath(ensurePlotOptionType(o, type), <<"plotOptions", type, field>>, val)

\* a single-level merge-setter of a plot-type component
PlotMerge(o, type, field, config) ==
    MergeOrEmptyAt(ensurePlotOptionType(o, type), <<"plotOptions", type, field>>, config)

\* LabelParts with name alone merged one level deeper
LabelPartsNameOnly == {"name"}

\* the three sub-mappings donut() and dataLabels() merge one level deeper
LabelParts == {"name", "value", "total"}

\* pie.donut(config)
Pie_donut(o, config) ==
    LET o1 == ensurePlotOptionType(o, "pie")
        d1 == Merge(OrEmpty(GetPath(o1, <<"plotOptions", "pie", "donut">>)), config)
        \* pieOptions.donut.labels, read after donut was assigned
        l == Get(d1, "labels")
        cl == Get(config, "labels")
        labels ==
            Obj(MergeMap(MergeMap(Spread(OrEmpty(l)), Spread(cl)),
                         [k \in LabelParts |-> Merge(OrEmpty(Get(l, k)), Get(cl, k))]))
    IN  SetPath(o1, <<"plotOptions", "pie", "donut">>,
                IF Truthy(cl) THEN Set(d1, "labels", labels) ELSE d1)

\* one `if (config.<part>)` block of dataLabels(), applied to the dataLabels mapping
RadialBar_mergePart(dl, config, part) ==
    IF Truthy(Get(config, part))
    THEN Set(dl, part, Merge(OrEmpty(Get(dl, part)), Get(config, part)))
    ELSE dl

\* radialBar.dataLabels(config)
RadialBar_dataLabels(o, config) ==
    LET o1 == ensurePlotOptionType(o, "radialBar")
        d1 == Merge(OrEmpty(GetPath(o1, <<"plotOptions", "radialBar", "dataLabels">>)),
                    config)
        d2 == RadialBar_mergePart(d1, config, "name")
        d3 == RadialBar_mergePart(d2, config, "value")
    IN  SetPath(o1, <<"plotOptions", "radialBar", "dataLabels">>,
                RadialBar_mergePart(d3, config, "total"))

----------------------------------------------------------------------------
(* Chart, the container (main.ts 1189-1389).                               *)

\* the document the constructor starts from
Chart_seed(type) == Obj([chart |-> Obj([type |-> Str(type)]), series |-> Arr(<<>>)])

\* the constructor with the leaf components and the manager left out
Chart_constructorAxesOnly(type) ==
    Axis_constructor(Axis_constructor(Chart_seed(type), "xaxis"), "yaxis")

\* new Chart(type): the seed, then every component constructed in order
Chart_constructor(type) ==
    LET a == Axis_constructor(Axis_constructor(Chart_seed(type), "xaxis"), "yaxis")
        b == Legend_constructor(Tooltip_constructor(a))
        c == DataLabels_constructor(Grid_constructor(b))
    IN  PlotOptionsManager_constructor(Theme_constructor(Markers_constructor(c)))

\* ChartType: the chart kinds, each with a subclass of Chart named after it
ChartKinds ==
    { "line", "area", "bar", "pie", "donut", "radialBar", "scatter", "bubble",
      "heatmap", "candlestick", "boxPlot", "radar", "polarArea", "rangeBar",
      "rangeArea", "treemap" }

\* Chart.create(type)
Chart_create(type) == Chart_constructor(type)

\* new Donut(config) that leaves its argument out
Donut_constructorBare(config) == Chart_constructor("donut")

\* new Donut(config): super('donut'), then this.plotOptions.pie().donut(config)
Donut_constructor(config) == Pie_donut(Chart_constructor("donut"), config)

\* a chart block that is made anew whether or not there was one
Chart_ensureChartAnew(o) == Set(o, "chart", Obj([type |-> Str("line")]))

\* a missing chart block made anew with the type the container was built with
Chart_ensureChartOfKind(o) ==
    IF ~Truthy(Get(o, "chart")) THEN Set(o, "chart", Obj([type |-> Str(kind)])) ELSE o

\* this._options.chart = { type: 'line' } when !this._options.chart
Chart_ensureChart(o) ==
    IF ~Truthy(Get(o, "chart")) THEN Set(o, "chart", Obj([type |-> Str("line")])) ELSE o

\* the three states whose filter states() merges one level deeper
StateNames == {"normal", "hover", "active"}

\* one `if (config.<state>?.filter)` block of states(), applied to the states mapping
Chart_mergeState(st, config, name) ==
    IF Truthy(GetPath(config, <<name, "filter">>))
    THEN Set(st, name,
             Obj(MergeMap(Spread(OrEmpty(Get(st, name))),
                          [k \in {"filter"} |->
                              Merge(OrEmpty(GetPath(st, <<name, "filter">>)),
                                    GetPath(config, <<name, "filter">>))])))
    ELSE st

\* chart.states(config)
Chart_states(o, config) ==
    LET s1 == Merge(OrEmpty(Get(o, "states")), config)
        s2 == Chart_mergeState(s1, config, "normal")
        s3 == Chart_mergeState(s2, config, "hover")
    IN  Set(o, "states", Chart_mergeState(s3, config, "active"))

\* one `if (config?.<part>)` block of animations(), applied to the animations mapping
Chart_mergeAnimation(an, config, part) ==
    IF Truthy(Get(config, part))
    THEN Set(an, part, Merge(OrEmpty(Get(an, part)), Get(config, part)))
    ELSE an

\* chart.animations(config)
Chart_animations(o, config) ==
    LET o1 == Chart_ensureChart(o)
        a1 == Merge(OrEmpty(GetPath(o1, <<"chart", "animations">>)), config)
        a2 == Chart_mergeAnimation(a1, config, "animateGradually")
    IN  SetPath(o1, <<"chart", "animations">>,
                Chart_mergeAnimation(a2, config, "dynamicAnimation"))

----------------------------------------------------------------------------
(* The arguments the operations are called with.                           *)

Flags == {Bool(TRUE)}
ThemeNames == {Str("dark")}
Formatters == {Fn("fmt")}
GridAxisConfigs ==
    { Obj([lines |-> Obj([show |-> Bool(TRUE)])]),
      Obj([lines |-> Obj([show |-> Bool(FALSE)])]),
      Obj([lines |-> EmptyObj]),
      EmptyObj }
Offsets == {Num(3)}
MarkerSizes == {Num(4)}
ColorLists == {Arr(<<Str("#008FFB")>>)}
Widths == {Str("70%")}
Angles == {Num(90)}
ChartTypes == {"line", "bar"}
AnimationConfigs ==
    { Obj([enabled |-> Bool(TRUE),
           animateGradually |-> Obj([enabled |-> Bool(TRUE), delay |-> Num(150)]),
           dynamicAnimation |-> Obj([enabled |-> Bool(TRUE)])]),
      Obj([animateGradually |-> Obj([delay |-> Num(300)]),
           dynamicAnimation |-> Obj([speed |-> Num(350)])]),
      Obj([speed |-> Num(800)]),
      Undef }

----------------------------------------------------------------------------
(* Operations as actions.  Every action is one call: it spends one unit of *)
(* the budget, records the document it started from and what was called.   *)

\* a component setter that returns the container instead of its own instance
ThisChart(on) == [t |-> "this", v |-> "chart"]

\* `return this`: the instance the method was called on
This(on) == [t |-> "this", v |-> on]

\* one call that leaves the document as result and returns out; a call that
\* raises leaves the document as it was and returns nothing
Invoke(op, on, arg, result, out) ==
    /\ budget > 0
    /\ tree' = IF result = TypeError THEN tree ELSE result
    /\ ret' = IF result = TypeError THEN TypeError ELSE out
    /\ pre' = tree
    /\ last' = [op |-> op, on |-> on, arg |-> arg]
    /\ budget' = budget - 1
    /\ seen' = IF held = root THEN tree' ELSE seen
    /\ UNCHANGED <<cache, made, root, held, kind, heap, given>>

\* one call of a fluent setter, which ends with `return this`
Call(op, on, arg, result) == Invoke(op, on, arg, result, This(on))

\* component.setOption(path, value), reached through any component
ChartComponent_setOption ==
    \E on \in {"xaxis", "tooltip"},
       path \in { <<"xaxis", ".", "labels", ".", "style", ".", "fontSize">>,
                  <<"xaxis", ".", "labels">>,
                  <<"xaxis", ".", "title", ".", "text">>,
                  <<"title">>,
                  <<"chart", ".", "type", ".", "name">>,
                  <<"noData", ".", ".", "text">> },
       value \in {Str("12px"), Obj([show |-> Bool(TRUE)])} :
        Call("ChartComponent.setOption", on,
             Obj([path |-> Arr([i \in DOMAIN path |-> Str(path[i])]), value |-> value]),
             setOption(tree, Split(path), value))

NewAxis ==
    \E a \in AxisTypes :
        Invoke("new Axis", a, Undef,
           Axis_constructor(tree, a), [t |-> "new", v |-> "Axis"])

AxisTitle ==
    \E a \in AxisTypes, text \in {Str("Month"), Str("Value")} :
        Call("Axis.title", a, text, Axis_title(tree, a, text))

AxisCategories ==
    \E a \in AxisTypes, categories \in {Arr(<<Str("Jan"), Str("Feb"), Str("Mar")>>)} :
        Call("Axis.categories", a, categories, Axis_categories(tree, a, categories))

AxisType ==
    \E a \in AxisTypes, type \in {Str("datetime"), Str("numeric")} :
        Call("Axis.type", a, type, Axis_type(tree, a, type))

AxisLabels ==
    \E a \in AxisTypes, config \in
        { Obj([style |-> Obj([fontSize |-> Str("12px")])]),
          Obj([style |-> Obj([colors |-> Str("#e0e0e0")])]),
          Obj([show |-> Bool(TRUE), rotate |-> Num(45)]) } :
        Call("Axis.labels", a, config, Axis_labels(tree, a, config))

\* axis.labels(config) with the optional field style passed as undefined
AxisLabelsStyleUndefined ==
    \E a \in AxisTypes, config \in
        { Obj([style |-> Undef]),
          Obj([show |-> Bool(FALSE), style |-> Undef]) } :
        Call("Axis.labels", a, config, Axis_labels(tree, a, config))

AxisRange ==
    \E a \in AxisTypes, r \in {Obj([min |-> Num(0), max |-> Num(100)])} :
        Call("Axis.range", a, r, Axis_range(tree, a, Get(r, "min"), Get(r, "max")))

AxisTickAmount ==
    \E a \in AxisTypes, amount \in {Num(5)} :
        Call("Axis.tickAmount", a, amount, Axis_tickAmount(tree, a, amount))

AxisAxisBorder ==
    \E a \in AxisTypes, config \in
        { Obj([show |-> Bool(TRUE), color |-> Str("#78909c")]),
          Obj([color |-> Str("#000"), offsetX |-> Num(2)]) } :
        Call("Axis.axisBorder", a, config, Axis_axisBorder(tree, a, config))

AxisAxisTicks ==
    \E a \in AxisTypes, config \in
        { Obj([show |-> Bool(TRUE), height |-> Num(6)]),
          Obj([height |-> Num(8), color |-> Str("#000")]) } :
        Call("Axis.axisTicks", a, config, Axis_axisTicks(tree, a, config))

AxisCrosshairs ==
    \E a \in AxisTypes, config \in
        { Obj([show |-> Bool(TRUE), position |-> Str("back")]),
          Obj([position |-> Str("front"), stroke |-> Obj([width |-> Num(1)])]) } :
        Call("Axis.crosshairs", a, config, Axis_crosshairs(tree, a, config))

\* the caller assigns a sequence to options.yaxis through the live reference
AssignYaxisSlot ==
    \E slot \in
        { Arr(<<>>),
          Arr(<<EmptyObj, Obj([opposite |-> Bool(TRUE)])>>),
          Arr(<<Obj([title |-> Obj([text |-> Str("Left")]), min |-> Num(1)]),
                Obj([opposite |-> Bool(TRUE)])>>) } :
        Invoke("options.yaxis =", "yaxis", slot, Set(tree, "yaxis", slot), slot)

\* the caller assigns a scalar, or an empty sequence, to options.yaxis
AssignYaxisScalar ==
    \E slot \in
        { Undef, Null, Bool(FALSE), Bool(TRUE), Num(0), Num(5), Str(""), Str("left"),
          Arr(<<>>) } :
        Invoke("options.yaxis =", "yaxis", slot, Set(tree, "yaxis", slot), slot)

\* the document o after the setter call c, a record of the setter's name, the
\* component it is called on and its argument
Do(o, c) ==
    CASE c.op = "Axis.title" -> Axis_title(o, c.on, c.arg)
      [] c.op = "Axis.labels" -> Axis_labels(o, c.on, c.arg)
      [] c.op = "Tooltip.style" -> MergeAt(o, <<"tooltip", "style">>, c.arg)
      [] c.op = "Legend.position" -> SetPath(o, <<"legend", "position">>, c.arg)
      [] c.op = "Grid.xaxis" -> Grid_xaxis(o, c.arg)
      [] c.op = "Grid.yaxis" -> Grid_yaxis(o, c.arg)
      [] c.op = "DataLabels.style" -> MergeAt(o, <<"dataLabels", "style">>, c.arg)
      [] c.op = "Markers.size" -> SetPath(o, <<"markers", "size">>, c.arg)
      [] c.op = "Theme.monochrome" -> MergeAt(o, <<"theme", "monochrome">>, c.arg)
      [] c.op = "Bar.horizontal" -> PlotField(o, "bar", "horizontal", c.arg)
      [] c.op = "Pie.donut" -> Pie_donut(o, c.arg)
      [] c.op = "RadialBar.hollow" -> PlotMerge(o, "radialBar", "hollow", c.arg)
      [] c.op = "Heatmap.colorScale" -> PlotMerge(o, "heatmap", "colorScale", c.arg)

\* two setter calls, one after the other, addressed to different components:
\* to different top-level keys, to different plot types, or to grid.xaxis and
\* grid.yaxis
SetterPair ==
    \E c1, c2 \in
        { [op |-> "Axis.title", on |-> "xaxis", arg |-> Str("Month")],
          [op |-> "Axis.labels", on |-> "yaxis",
           arg |-> Obj([style |-> Obj([fontSize |-> Str("12px")])])],
          [op |-> "Tooltip.style", on |-> "tooltip",
           arg |-> Obj([fontFamily |-> Str("Mono")])],
          [op |-> "Legend.position", on |-> "legend", arg |-> Str("top")],
          [op |-> "Grid.xaxis", on |-> "grid",
           arg |-> Obj([lines |-> Obj([show |-> Bool(TRUE)])])],
          [op |-> "Grid.yaxis", on |-> "grid",
           arg |-> Obj([lines |-> Obj([show |-> Bool(FALSE)])])],
          [op |-> "DataLabels.style", on |-> "dataLabels",
           arg |-> Obj([fontSize |-> Str("12px")])],
          [op |-> "Markers.size", on |-> "markers", arg |-> Num(4)],
          [op |-> "Theme.monochrome", on |-> "theme",
           arg |-> Obj([enabled |-> Bool(FALSE), color |-> Str("#255aee")])],
          [op |-> "Bar.horizontal", on |-> "bar", arg |-> Bool(TRUE)],
          [op |-> "Pie.donut", on |-> "pie",
           arg |-> Obj([labels |-> Obj([name |-> Obj([show |-> Bool(TRUE)])])])],
          [op |-> "RadialBar.hollow", on |-> "radialBar",
           arg |-> Obj([size |-> Str("60%")])],
          [op |-> "Heatmap.colorScale", on |-> "heatmap",
           arg |-> Obj([min |-> Num(10), max |-> Num(90)])] } :
        /\ c1.on # c2.on \/ {c1.op, c2.op} = {"Grid.xaxis", "Grid.yaxis"}
        /\ Invoke("two setters", c2.on, <<c1, c2>>, Do(Do(tree, c1), c2), This(c2.on))

\* the caller removes the optional chart block through the live reference
UnsetChartSlot ==
    Invoke("options.chart =", "chart", Undef, Set(tree, "chart", Undef), Undef)

NewTooltip == Invoke("new Tooltip", "", Undef,
           Tooltip_constructor(tree), [t |-> "new", v |-> "Tooltip"])

Tooltip_enabled ==
    \E enabled \in Flags :
        Call("Tooltip.enabled", "tooltip", enabled, SetPath(tree, <<"tooltip", "enabled">>, enabled))

Tooltip_shared ==
    \E shared \in Flags :
        Call("Tooltip.shared", "tooltip", shared, SetPath(tree, <<"tooltip", "shared">>, shared))

Tooltip_followCursor ==
    \E follow \in Flags :
        Call("Tooltip.followCursor", "tooltip", follow,
             SetPath(tree, <<"tooltip", "followCursor">>, follow))

Tooltip_theme ==
    \E theme \in ThemeNames :
        Call("Tooltip.theme", "tooltip", theme, SetPath(tree, <<"tooltip", "theme">>, theme))

Tooltip_style ==
    \E config \in
        { Obj([fontSize |-> Str("12px"), fontFamily |-> Str("Arial")]),
          Obj([fontFamily |-> Str("Mono")]) } :
        Call("Tooltip.style", "tooltip", config, MergeAt(tree, <<"tooltip", "style">>, config))

Tooltip_custom ==
    \E formatter \in Formatters :
        Call("Tooltip.custom", "tooltip", formatter, SetPath(tree, <<"tooltip", "custom">>, formatter))

Tooltip_xFormatter ==
    \E formatter \in Formatters :
        Call("Tooltip.xFormatter", "tooltip", formatter,
             SetPath(tree, <<"tooltip", "x", "formatter">>, formatter))

Tooltip_yFormatter ==
    \E formatter \in Formatters :
        Call("Tooltip.yFormatter", "tooltip", formatter,
             SetPath(tree, <<"tooltip", "y", "formatter">>, formatter))

NewLegend == Invoke("new Legend", "", Undef,
           Legend_constructor(tree), [t |-> "new", v |-> "Legend"])

Legend_show ==
    \E visible \in Flags :
        Call("Legend.show", "legend", visible, SetPath(tree, <<"legend", "show">>, visible))

Legend_position ==
    \E position \in {Str("top")} :
        Call("Legend.position", "legend", position, SetPath(tree, <<"legend", "position">>, position))

Legend_horizontalAlign ==
    \E align \in {Str("center")} :
        Call("Legend.horizontalAlign", "legend", align,
             SetPath(tree, <<"legend", "horizontalAlign">>, align))

Legend_fontSize ==
    \E size \in {Str("14px")} :
        Call("Legend.fontSize", "legend", size, SetPath(tree, <<"legend", "fontSize">>, size))

Legend_fontFamily ==
    \E family \in {Str("Arial")} :
        Call("Legend.fontFamily", "legend", family, SetPath(tree, <<"legend", "fontFamily">>, family))

Legend_labels ==
    \E config \in
        { Obj([colors |-> Arr(<<Str("#e0e0e0")>>), useSeriesColors |-> Bool(FALSE)]),
          Obj([useSeriesColors |-> Bool(TRUE)]) } :
        Call("Legend.labels", "legend", config, MergeAt(tree, <<"legend", "labels">>, config))

Legend_markers ==
    \E config \in
        { Obj([width |-> Num(12), height |-> Num(12)]),
          Obj([height |-> Num(8), radius |-> Num(2)]) } :
        Call("Legend.markers", "legend", config, MergeAt(tree, <<"legend", "markers">>, config))

Legend_itemMargin ==
    \E config \in
        { Obj([horizontal |-> Num(5), vertical |-> Num(2)]),
          Obj([vertical |-> Num(4)]) } :
        Call("Legend.itemMargin", "legend", config, MergeAt(tree, <<"legend", "itemMargin">>, config))

NewGrid == Invoke("new Grid", "", Undef,
           Grid_constructor(tree), [t |-> "new", v |-> "Grid"])

Grid_show ==
    \E visible \in Flags :
        Call("Grid.show", "grid", visible, SetPath(tree, <<"grid", "show">>, visible))

Grid_borderColor ==
    \E color \in {Str("#f1f1f1")} :
        Call("Grid.borderColor", "grid", color, SetPath(tree, <<"grid", "borderColor">>, color))

Grid_strokeDashArray ==
    \E dashArray \in {Num(4)} :
        Call("Grid.strokeDashArray", "grid", dashArray,
             SetPath(tree, <<"grid", "strokeDashArray">>, dashArray))

Grid_position ==
    \E position \in {Str("back")} :
        Call("Grid.position", "grid", position, SetPath(tree, <<"grid", "position">>, position))

GridXaxis ==
    \E config \in GridAxisConfigs :
        Call("Grid.xaxis", "grid", config, Grid_xaxis(tree, config))

GridYaxis ==
    \E config \in GridAxisConfigs :
        Call("Grid.yaxis", "grid", config, Grid_yaxis(tree, config))

Grid_padding ==
    \E config \in
        { Obj([top |-> Num(10), left |-> Num(5)]),
          Obj([left |-> Num(8), right |-> Num(8)]) } :
        Call("Grid.padding", "grid", config, MergeAt(tree, <<"grid", "padding">>, config))

NewDataLabels == Invoke("new DataLabels", "", Undef,
           DataLabels_constructor(tree), [t |-> "new", v |-> "DataLabels"])

DataLabels_enabled ==
    \E enabled \in Flags :
        Call("DataLabels.enabled", "dataLabels", enabled,
             SetPath(tree, <<"dataLabels", "enabled">>, enabled))

DataLabels_formatter ==
    \E formatter \in Formatters :
        Call("DataLabels.formatter", "dataLabels", formatter,
             SetPath(tree, <<"dataLabels", "formatter">>, formatter))

DataLabels_style ==
    \E config \in
        { Obj([fontSize |-> Str("12px"), fontWeight |-> Num(600)]),
          Obj([fontWeight |-> Str("bold"), colors |-> Arr(<<Str("#fff")>>)]) } :
        Call("DataLabels.style", "dataLabels", config, MergeAt(tree, <<"dataLabels", "style">>, config))

DataLabels_background ==
    \E config \in
        { Obj([enabled |-> Bool(TRUE), padding |-> Num(4)]),
          Obj([padding |-> Num(2), opacity |-> Num(1)]) } :
        Call("DataLabels.background", "dataLabels", config,
             MergeAt(tree, <<"dataLabels", "background">>, config))

DataLabels_offsetX ==
    \E offset \in Offsets :
        Call("DataLabels.offsetX", "dataLabels", offset,
             SetPath(tree, <<"dataLabels", "offsetX">>, offset))

DataLabels_offsetY ==
    \E offset \in Offsets :
        Call("DataLabels.offsetY", "dataLabels", offset,
             SetPath(tree, <<"dataLabels", "offsetY">>, offset))

NewMarkers == Invoke("new Markers", "", Undef,
           Markers_constructor(tree), [t |-> "new", v |-> "Markers"])

Markers_size ==
    \E size \in MarkerSizes :
        Call("Markers.size", "markers", size, SetPath(tree, <<"markers", "size">>, size))

Markers_colors ==
    \E colors \in ColorLists :
        Call("Markers.colors", "markers", colors, SetPath(tree, <<"markers", "colors">>, colors))

Markers_strokeColors ==
    \E colors \in ColorLists :
        Call("Markers.strokeColors", "markers", colors,
             SetPath(tree, <<"markers", "strokeColors">>, colors))

Markers_strokeWidth ==
    \E width \in MarkerSizes :
        Call("Markers.strokeWidth", "markers", width,
             SetPath(tree, <<"markers", "strokeWidth">>, width))

Markers_shape ==
    \E shape \in {Str("circle")} :
        Call("Markers.shape", "markers", shape, SetPath(tree, <<"markers", "shape">>, shape))

Markers_radius ==
    \E radius \in MarkerSizes :
        Call("Markers.radius", "markers", radius, SetPath(tree, <<"markers", "radius">>, radius))

Markers_hover ==
    \E config \in
        { Obj([size |-> Num(6), sizeOffset |-> Num(3)]),
          Obj([sizeOffset |-> Num(1)]) } :
        Call("Markers.hover", "markers", config, MergeAt(tree, <<"markers", "hover">>, config))

NewTheme == Invoke("new Theme", "", Undef,
           Theme_constructor(tree), [t |-> "new", v |-> "Theme"])

Theme_mode ==
    \E mode \in ThemeNames :
        Call("Theme.mode", "theme", mode, SetPath(tree, <<"theme", "mode">>, mode))

Theme_palette ==
    \E palette \in {Str("palette1")} :
        Call("Theme.palette", "theme", palette, SetPath(tree, <<"theme", "palette">>, palette))

Theme_monochrome ==
    \E config \in
        { Obj([enabled |-> Bool(FALSE), color |-> Str("#255aee")]),
          Obj([color |-> Str("#000"), shadeTo |-> Str("dark")]) } :
        Call("Theme.monochrome", "theme", config, MergeAt(tree, <<"theme", "monochrome">>, config))

\* an accessor that constructs a component on every call
PlotOptionsManager_accessorUncached ==
    \E type \in PlotTypes :
        /\ budget > 0
        /\ made' = [made EXCEPT ![type] = @ + 1]
        /\ cache' = [cache EXCEPT ![type] = made'[type]]
        /\ ret' = [t |-> "inst", v |-> <<type, cache'[type]>>]
        /\ pre' = tree
        /\ last' = [op |-> "PlotOptionsManager.accessor", on |-> "plotOptions",
                    arg |-> Str(type)]
        /\ budget' = budget - 1
        /\ UNCHANGED <<tree, root, held, seen, kind, heap, given>>

\* chart.plotOptions.bar(), pie(), radialBar(), heatmap(): the component of the
\* type is constructed when the manager's field is undefined, stored there and
\* returned; an instance is known by its type and its number among the
\* instances of the type the manager constructed
PlotOptionsManager_accessor ==
    \E type \in PlotTypes :
        /\ budget > 0
        /\ made' = IF cache[type] = 0 THEN [made EXCEPT ![type] = @ + 1] ELSE made
        /\ cache' = IF cache[type] = 0 THEN [cache EXCEPT ![type] = made'[type]]
                     ELSE cache
        /\ ret' = [t |-> "inst", v |-> <<type, cache'[type]>>]
        /\ pre' = tree
        /\ last' = [op |-> "PlotOptionsManager.accessor", on |-> "plotOptions",
                    arg |-> Str(type)]
        /\ budget' = budget - 1
        /\ UNCHANGED <<tree, root, held, seen, kind, heap, given>>

\* horizontal(isHorizontal) of the Bar container: this.plotOptions.bar(), which
\* constructs the manager's BarOptions when it has none, then horizontal() of
\* that instance, then `return this`, the container
BarChart_horizontal ==
    \E isHorizontal \in {Bool(TRUE), Bool(FALSE)} :
        /\ kind = "bar"
        /\ budget > 0
        /\ made' = IF cache["bar"] = 0 THEN [made EXCEPT !["bar"] = @ + 1] ELSE made
        /\ cache' = IF cache["bar"] = 0 THEN [cache EXCEPT !["bar"] = made'["bar"]]
                     ELSE cache
        /\ tree' = PlotField(tree, "bar", "horizontal", isHorizontal)
        /\ ret' = This("chart")
        /\ pre' = tree
        /\ last' = [op |-> "Bar.horizontal", on |-> "chart", arg |-> isHorizontal]
        /\ budget' = budget - 1
        /\ seen' = IF held = root THEN tree' ELSE seen
        /\ UNCHANGED <<root, held, kind, heap, given>>

NewPlotOptionsManager == Invoke("new PlotOptionsManager", "", Undef,
           PlotOptionsManager_constructor(tree), [t |-> "new", v |-> "PlotOptionsManager"])

Bar_horizontal ==
    \E isHorizontal \in Flags :
        Call("Bar.horizontal", "bar", isHorizontal,
             PlotField(tree, "bar", "horizontal", isHorizontal))

Bar_columnWidth ==
    \E width \in Widths :
        Call("Bar.columnWidth", "bar", width, PlotField(tree, "bar", "columnWidth", width))

Bar_barHeight ==
    \E height \in Widths :
        Call("Bar.barHeight", "bar", height, PlotField(tree, "bar", "barHeight", height))

Bar_distributed ==
    \E distributed \in Flags :
        Call("Bar.distributed", "bar", distributed,
             PlotField(tree, "bar", "distributed", distributed))

Bar_borderRadius ==
    \E radius \in MarkerSizes :
        Call("Bar.borderRadius", "bar", radius, PlotField(tree, "bar", "borderRadius", radius))

Bar_colors ==
    \E config \in
        { Obj([backgroundBarOpacity |-> Num(1), backgroundBarRadius |-> Num(0)]),
          Obj([backgroundBarRadius |-> Num(4), backgroundBarColors |-> Arr(<<Str("#eee")>>)]) } :
        Call("Bar.colors", "bar", config, PlotMerge(tree, "bar", "colors", config))

Pie_startAngle ==
    \E angle \in Angles :
        Call("Pie.startAngle", "pie", angle, PlotField(tree, "pie", "startAngle", angle))

Pie_endAngle ==
    \E angle \in Angles :
        Call("Pie.endAngle", "pie", angle, PlotField(tree, "pie", "endAngle", angle))

Pie_expandOnClick ==
    \E expand \in Flags :
        Call("Pie.expandOnClick", "pie", expand, PlotField(tree, "pie", "expandOnClick", expand))

PieDonut ==
    \E config \in
        { Obj([size |-> Str("70%")]),
          Obj([labels |-> Obj([name |-> Obj([show |-> Bool(TRUE)])])]),
          Obj([labels |->
                Obj([show |-> Bool(TRUE),
                     name |-> Obj([fontSize |-> Str("22px")]),
                     value |-> Obj([color |-> Str("#333")]),
                     total |-> Obj([showAlways |-> Bool(TRUE), label |-> Str("Total")])])]),
          Obj([background |-> Str("#fff"), labels |-> EmptyObj]) } :
        Call("Pie.donut", "pie", config, Pie_donut(tree, config))

\* pie.donut(config) with the optional field labels passed as undefined
PieDonutLabelsUndefined ==
    \E config \in
        { Obj([labels |-> Undef]),
          Obj([size |-> Str("70%"), labels |-> Undef]) } :
        Call("Pie.donut", "pie", config, Pie_donut(tree, config))

RadialBar_hollow ==
    \E config \in
        { Obj([margin |-> Num(5), size |-> Str("50%")]),
          Obj([size |-> Str("60%"), background |-> Str("#fff")]) } :
        Call("RadialBar.hollow", "radialBar", config, PlotMerge(tree, "radialBar", "hollow", config))

RadialBar_track ==
    \E config \in
        { Obj([show |-> Bool(TRUE), opacity |-> Num(1)]),
          Obj([opacity |-> Num(0), margin |-> Num(5)]) } :
        Call("RadialBar.track", "radialBar", config, PlotMerge(tree, "radialBar", "track", config))

RadialBarDataLabels ==
    \E config \in
        { Obj([show |-> Bool(TRUE),
               name |-> Obj([fontSize |-> Str("22px")]),
               value |-> Obj([color |-> Str("#333")]),
               total |-> Obj([show |-> Bool(TRUE), label |-> Str("Total")])]),
          Obj([name |-> Obj([show |-> Bool(TRUE)])]),
          Obj([show |-> Bool(FALSE)]) } :
        Call("RadialBar.dataLabels", "radialBar", config, RadialBar_dataLabels(tree, config))

Heatmap_radius ==
    \E radius \in MarkerSizes :
        Call("Heatmap.radius", "heatmap", radius, PlotField(tree, "heatmap", "radius", radius))

Heatmap_enableShades ==
    \E enable \in Flags :
        Call("Heatmap.enableShades", "heatmap", enable,
             PlotField(tree, "heatmap", "enableShades", enable))

Heatmap_shadeIntensity ==
    \E intensity \in Offsets :
        Call("Heatmap.shadeIntensity", "heatmap", intensity,
             PlotField(tree, "heatmap", "shadeIntensity", intensity))

Heatmap_colorScale ==
    \E config \in
        { Obj([inverse |-> Bool(FALSE), min |-> Num(0)]),
          Obj([min |-> Num(10), max |-> Num(90)]) } :
        Call("Heatmap.colorScale", "heatmap", config, PlotMerge(tree, "heatmap", "colorScale", config))

Chart_title ==
    \E text \in {Str("Sample")} :
        Call("Chart.title", "chart", text,
             SetPath(EnsureKey(tree, "title"), <<"title", "text">>, text))

Chart_subtitle ==
    \E text \in {Str("Sample Subtitle")} :
        Call("Chart.subtitle", "chart", text,
             SetPath(EnsureKey(tree, "subtitle"), <<"subtitle", "text">>, text))

Chart_height ==
    \E height \in {Num(350)} :
        Call("Chart.height", "chart", height,
             SetPath(Chart_ensureChart(tree), <<"chart", "height">>, height))

Chart_width ==
    \E width \in {Str("100%")} :
        Call("Chart.width", "chart", width,
             SetPath(Chart_ensureChart(tree), <<"chart", "width">>, width))

\* chart.series(data) appending data to the stored list
Chart_seriesAppend ==
    \E data \in {Arr(<<Obj([name |-> Str("S1"), data |-> Arr(<<Num(1), Num(2), Num(3)>>)])>>)} :
        Call("Chart.series", "chart", data,
             Set(tree, "series", Arr(Get(tree, "series").v \o data.v)))

Chart_series ==
    \E data \in
        { Arr(<<Obj([name |-> Str("S1"), data |-> Arr(<<Num(1), Num(2), Num(3)>>)])>>),
          Arr(<<Obj([name |-> Str("A"), data |-> Arr(<<Num(4)>>)]),
                Obj([name |-> Str("B"), data |-> Arr(<<Num(5)>>)])>>) } :
        Call("Chart.series", "chart", data, Set(tree, "series", data))

Chart_colors ==
    \E colors \in ColorLists \cup {Arr(<<Str("#111"), Str("#222")>>)} :
        Call("Chart.colors", "chart", colors, Set(tree, "colors", colors))

ChartStates ==
    \E config \in
        { Obj([normal |-> Obj([filter |-> Obj([type |-> Str("none"), value |-> Num(0)])]),
               hover |-> Obj([filter |-> Obj([type |-> Str("lighten")])])]),
          Obj([hover |-> Obj([filter |-> Obj([value |-> Num(15)])])]),
          Obj([active |-> Obj([allowMultipleDataPointsSelection |-> Bool(FALSE)])]) } :
        Call("Chart.states", "chart", config, Chart_states(tree, config))

Chart_responsive ==
    \E breakpoints \in
        { Arr(<<Obj([breakpoint |-> Num(480),
                     options |-> Obj([legend |-> Obj([position |-> Str("bottom")])])])>>),
          Arr(<<Obj([breakpoint |-> Num(768),
                     options |-> Obj([chart |-> Obj([height |-> Num(300)])])])>>) } :
        Call("Chart.responsive", "chart", breakpoints, Set(tree, "responsive", breakpoints))

\* the options accessor handing out a copy of the document, an object of its own
Chart_optionsCopy ==
    /\ budget > 0
    /\ held' = root + 1
    /\ seen' = tree
    /\ ret' = [t |-> "ref", v |-> held']
    /\ pre' = tree
    /\ last' = [op |-> "Chart.options", on |-> "chart", arg |-> Undef]
    /\ budget' = budget - 1
    /\ UNCHANGED <<tree, cache, made, root, kind, heap, given>>

\* get options(): return this._options, the object itself
Chart_options ==
    /\ budget > 0
    /\ held' = root
    /\ seen' = tree
    /\ ret' = [t |-> "ref", v |-> held']
    /\ pre' = tree
    /\ last' = [op |-> "Chart.options", on |-> "chart", arg |-> Undef]
    /\ budget' = budget - 1
    /\ UNCHANGED <<tree, cache, made, root, kind, heap, given>>

\* the property read x.name on the container or on one of its components: the
\* container holds its components and the options accessor, a component holds
\* the container it was constructed with, and a read on undefined raises
Member(x, name) ==
    CASE x = This("chart") /\ name \in
             {"xaxis", "yaxis", "tooltip", "legend", "grid", "dataLabels", "markers",
              "theme", "plotOptions"} -> This(name)
      [] x = This("chart") /\ name = "options" -> [t |-> "ref", v |-> root]
      [] x.t = "this" /\ x # This("chart") /\ name = "chart" -> This("chart")
      [] x.t \in {"undef", "null", "throw"} -> TypeError
      [] OTHER -> Undef

\* the chained usage of the README: each link calls a method on what the link
\* before it returned, or on a member of that
ReadmeChain ==
    << [via |-> "", call |-> "title"],
       [via |-> "", call |-> "series"],
       [via |-> "xaxis", call |-> "categories"],
       [via |-> "xaxis", call |-> "title"],
       [via |-> "yaxis", call |-> "title"] >>

\* the next link of the chain, unless an error has ended it; calling what is
\* not a method of the target raises
ReadmeChain_next ==
    /\ ret # TypeError
    /\ budget \in 1..Len(ReadmeChain)
    /\ LET link == ReadmeChain[Len(ReadmeChain) - budget + 1]
           target == IF link.via = "" THEN ret ELSE Member(ret, link.via)
           on == IF target.t = "this" THEN target.v ELSE "undefined"
       IN  \E arg \in
               CASE link.call = "title" ->
                        {Str("Dark Mode Example"), Str("X-Axis"), Str("Y-Axis")}
                 [] link.call = "series" ->
                        { Arr(<<Obj([name |-> Str("Data"), data |-> Arr(<<Num(10), Num(20)>>)])>>),
                          Arr(<<Obj([name |-> Str("S1"), data |-> Arr(<<Num(1)>>)])>>),
                          Arr(<<>>) }
                 [] link.call = "categories" ->
                        { Arr(<<Str("A"), Str("B"), Str("C"), Str("D")>>),
                          Arr(<<Str("Jan"), Str("Feb")>>),
                          Arr(<<Str("Q1")>>) } :
               Invoke(link.call, on, arg,
                      CASE on = "chart" /\ link.call = "title" ->
                               SetPath(EnsureKey(tree, "title"), <<"title", "text">>, arg)
                        [] on = "chart" /\ link.call = "series" ->
                               Set(tree, "series", arg)
                        [] on \in AxisTypes /\ link.call = "title" ->
                               Axis_title(tree, on, arg)
                        [] on \in AxisTypes /\ link.call = "categories" ->
                               Axis_categories(tree, on, arg)
                        [] OTHER -> TypeError,
                      target)

ChartAnimations ==
    \E config \in AnimationConfigs :
        Call("Chart.animations", "chart", config, Chart_animations(tree, config))

----------------------------------------------------------------------------
(* Specifications.                                                         *)

\* a freshly constructed container of one of the chart kinds
InitWith(types, steps) ==
    /\ \E type \in types :
          /\ tree = Chart_constructor(type)
          /\ pre = Chart_seed(type)
          /\ last = [op |-> "new Chart", on |-> "chart", arg |-> Str(type)]
          /\ seen = Chart_seed(type)
          /\ kind = type
    /\ budget = steps
    /\ ret = This("chart")
    /\ cache = [type \in PlotTypes |-> 0]
    /\ made = [type \in PlotTypes |-> 0]
    /\ root = 1
    /\ held = 0
    /\ heap = <<>>
    /\ given = {}

AxisSetters ==
    \/ AxisTitle
    \/ AxisCategories
    \/ AxisType
    \/ AxisLabels
    \/ AxisRange
    \/ AxisTickAmount
    \/ AxisAxisBorder
    \/ AxisAxisTicks
    \/ AxisCrosshairs

LeafSetters ==
    \/ Tooltip_enabled
    \/ Tooltip_shared
    \/ Tooltip_followCursor
    \/ Tooltip_theme
    \/ Tooltip_style
    \/ Tooltip_custom
    \/ Tooltip_xFormatter
    \/ Tooltip_yFormatter
    \/ Legend_show
    \/ Legend_position
    \/ Legend_horizontalAlign
    \/ Legend_fontSize
    \/ Legend_fontFamily
    \/ Legend_labels
    \/ Legend_markers
    \/ Legend_itemMargin
    \/ Grid_show
    \/ Grid_borderColor
    \/ Grid_strokeDashArray
    \/ Grid_position
    \/ GridXaxis
    \/ GridYaxis
    \/ Grid_padding
    \/ DataLabels_enabled
    \/ DataLabels_formatter
    \/ DataLabels_style
    \/ DataLabels_background
    \/ DataLabels_offsetX
    \/ DataLabels_offsetY
    \/ Markers_size
    \/ Markers_colors
    \/ Markers_strokeColors
    \/ Markers_strokeWidth
    \/ Markers_shape
    \/ Markers_radius
    \/ Markers_hover
    \/ Theme_mode
    \/ Theme_palette
    \/ Theme_monochrome

PlotSetters ==
    \/ Bar_horizontal
    \/ Bar_columnWidth
    \/ Bar_barHeight
    \/ Bar_distributed
    \/ Bar_borderRadius
    \/ Bar_colors
    \/ Pie_startAngle
    \/ Pie_endAngle
    \/ Pie_expandOnClick
    \/ PieDonut
    \/ RadialBar_hollow
    \/ RadialBar_track
    \/ RadialBarDataLabels
    \/ Heatmap_radius
    \/ Heatmap_enableShades
    \/ Heatmap_shadeIntensity
    \/ Heatmap_colorScale

ChartSetters ==
    \/ Chart_title
    \/ Chart_subtitle
    \/ Chart_height
    \/ Chart_width
    \/ Chart_series
    \/ Chart_colors
    \/ ChartStates
    \/ Chart_responsive
    \/ ChartAnimations

\* every builder operation and every component constructed again, from a
\* freshly constructed container
Init == InitWith({"line"}, MaxSteps)
Next ==
    \/ AxisSetters
    \/ LeafSetters
    \/ PlotSetters
    \/ ChartSetters
    \/ NewAxis
    \/ NewTooltip
    \/ NewLegend
    \/ NewGrid
    \/ NewDataLabels
    \/ NewMarkers
    \/ NewTheme
    \/ NewPlotOptionsManager
Spec == Init /\ [][Next]_vars

\* the axis component, with the yaxis slot also assigned by the caller
SpecAxis ==
    /\ InitWith({"line"}, MaxAxisSteps)
    /\ [][AxisSetters \/ NewAxis \/ AssignYaxisSlot]_vars

\* the container's own setters, on containers of several kinds
SpecChart ==
    /\ InitWith(ChartTypes, MaxChartSteps)
    /\ [][ChartSetters]_vars

\* the setters of the end-to-end scenario, on a line chart
SpecScenario ==
    /\ InitWith({"line"}, MaxScenarioSteps)
    /\ [][\/ Chart_title
          \/ Chart_height
          \/ Chart_series
          \/ AxisCategories
          \/ AxisTitle]_vars

MaxDonutSteps == 3

\* pie.donut(config) on a donut chart, the labels field a mapping, left out, or
\* passed as undefined
SpecDonut ==
    /\ InitWith({"donut"}, MaxDonutSteps)
    /\ [][PieDonut \/ PieDonutLabelsUndefined]_vars

\* the plot-options manager: its accessors and the plot-type setters
SpecPlot ==
    /\ InitWith({"line"}, MaxPlotSteps)
    /\ [][PlotSetters \/ PlotOptionsManager_accessor]_vars

\* path-set calls on a document the container built or the caller stored in
\* the public _options field
SpecPath ==
    /\ tree \in { Chart_constructor("line"),
                   EmptyObj,
                   Obj([xaxis |-> Null, title |-> Obj([text |-> Str("Sample")])]),
                   Obj([xaxis |-> Obj([type |-> Str("category"),
                                       labels |-> Obj([show |-> Bool(TRUE)])])]) }
    /\ pre = tree
    /\ seen = tree
    /\ last = [op |-> "_options =", on |-> "chart", arg |-> tree]
    /\ budget = MaxPathSteps
    /\ ret = tree
    /\ cache = [type \in PlotTypes |-> 0]
    /\ made = [type \in PlotTypes |-> 0]
    /\ root = 1
    /\ held = 0
    /\ heap = <<>>
    /\ given = {}
    /\ kind = ""
    /\ [][ChartComponent_setOption]_vars

\* every setter of every component, on a fresh line chart and on one whose
\* yaxis slot the caller has then assigned an empty sequence
SpecFluent ==
    /\ pre = Chart_constructor("line")
    /\ \/ /\ tree = pre
          /\ last = [op |-> "new Chart", on |-> "chart", arg |-> Str("line")]
          /\ ret = This("chart")
       \/ /\ tree = Set(pre, "yaxis", Arr(<<>>))
          /\ last = [op |-> "options.yaxis =", on |-> "yaxis", arg |-> Arr(<<>>)]
          /\ ret = Arr(<<>>)
    /\ seen = Chart_seed("line")
    /\ kind = "line"
    /\ budget = MaxFluentSteps
    /\ cache = [type \in PlotTypes |-> 0]
    /\ made = [type \in PlotTypes |-> 0]
    /\ root = 1
    /\ held = 0
    /\ heap = <<>>
    /\ given = {}
    /\ [][AxisSetters \/ LeafSetters \/ PlotSetters \/ ChartSetters]_vars

----------------------------------------------------------------------------
(* The same statements with object identity: every mapping is an object on   *)
(* a heap, a property holds a scalar or a reference to an object, a spread   *)
(* copies properties (references included) into a new object, and an         *)
(* assignment writes one property of an existing object. The caller's config *)
(* is an object on the same heap, which the caller keeps.                    *)

MaxHeapSteps == 3

\* a reference to object number i
Ref(i) == [t |-> "ref", v |-> i]

RECURSIVE Store(_, _)
RECURSIVE StoreNested(_, _, _, _)
RECURSIVE Deref(_, _)
RECURSIVE HWalk(_, _, _)

\* the object literal doc, written out by the caller: its object is number
\* Len(h) + 1, the objects nested in it follow
Store(h, doc) ==
    LET nested == {k \in DOMAIN doc.v : IsObj(doc.v[k])}
    IN  StoreNested(Append(h, [k \in DOMAIN doc.v \ nested |-> doc.v[k]]),
                    Len(h) + 1, doc, nested)

\* the nested literals of doc, each stored and referenced from object id, one
\* after the other
StoreNested(h, id, doc, keys) ==
    IF keys = {} THEN h
    ELSE LET k == CHOOSE kk \in keys : TRUE
             h1 == Store(h, doc.v[k])
             h2 == [h1 EXCEPT ![id] = (k :> Ref(Len(h) + 1)) @@ @]
         IN  IF Len(h2) > 0 THEN StoreNested(h2, id, doc, keys \ {k}) ELSE h2

\* what is seen through the value x: a scalar, or the object it references with
\* everything below it
Deref(h, x) ==
    IF x.t = "ref" THEN Obj([k \in DOMAIN h[x.v] |-> Deref(h, h[x.v][k])]) ELSE x

\* the property read x.k (and x?.k)
HRead(h, x, k) == IF x.t = "ref" /\ k \in DOMAIN h[x.v] THEN h[x.v][k] ELSE Undef

\* the reads x.p1.p2... along a path
HWalk(h, x, path) ==
    IF path = <<>> THEN x ELSE HWalk(h, HRead(h, x, Head(path)), Tail(path))

\* the own properties an object spread ...x copies
HSpread(h, x) == IF x.t = "ref" THEN h[x.v] ELSE EmptyMap

\* x.k = { ... }: a new object with the given properties is assigned to x.k
HAssignNew(h, x, k, props) ==
    [Append(h, props) EXCEPT ![x.v] = (k :> Ref(Len(h) + 1)) @@ @]

\* x.k = x.k || {}
HEnsure(h, x, k) == IF Truthy(HRead(h, x, k)) THEN h ELSE HAssignNew(h, x, k, EmptyMap)

\* Object.assign(x.k, config): the object x.k already holds is updated
Heap_mergeInPlace(h, x, k, config) ==
    IF HRead(h, x, k).t = "ref"
    THEN [h EXCEPT ![HRead(h, x, k).v] = MergeMap(@, HSpread(h, config))]
    ELSE HAssignNew(h, x, k, HSpread(h, config))

\* x.k = Object.assign(config, { ...x.k, ...config }): the caller's object is
\* completed and stored
Heap_mergeIntoConfig(h, x, k, config) ==
    [h EXCEPT ![config.v] = MergeMap(HSpread(h, HRead(h, x, k)), @),
              ![x.v] = (k :> config) @@ @]

\* x.k = { ...(x.k || {}), ...config }
Heap_merge(h, x, k, config) ==
    HAssignNew(h, x, k, MergeMap(HSpread(h, HRead(h, x, k)), HSpread(h, config)))

\* axis.labels(config) of the x axis
Heap_Axis_labels(h, config) ==
    LET axisConfig == HRead(h, Ref(root), "xaxis")
        h1 == HEnsure(h, axisConfig, "labels")
        h2 == Heap_merge(h1, axisConfig, "labels", config)
        labels == HRead(h2, axisConfig, "labels")
        h3 == HEnsure(h2, labels, "style")
    IN  IF ~Truthy(axisConfig) THEN h
        ELSE IF Truthy(HRead(h, config, "style"))
             THEN Heap_merge(h3, labels, "style", HRead(h, config, "style"))
             ELSE h2

\* one `if (config.<state>?.filter)` block of states()
Heap_Chart_mergeState(h, config, name) ==
    LET states == HRead(h, Ref(root), "states")
        state == HRead(h, states, name)
        filter == HRead(h, HRead(h, config, name), "filter")
        h1 == Append(h, MergeMap(HSpread(h, HRead(h, state, "filter")),
                                 HSpread(h, filter)))
    IN  IF Truthy(filter)
        THEN HAssignNew(h1, states, name,
                        MergeMap(HSpread(h1, state), "filter" :> Ref(Len(h1))))
        ELSE h

\* chart.states(config)
Heap_Chart_states(h, config) ==
    LET h1 == Heap_merge(h, Ref(root), "states", config)
        h2 == Heap_Chart_mergeState(h1, config, "normal")
        h3 == Heap_Chart_mergeState(h2, config, "hover")
    IN  Heap_Chart_mergeState(h3, config, "active")

\* pie.donut(config)
Heap_Pie_donut(h, config) ==
    LET h1 == HEnsure(h, Ref(root), "plotOptions")
        plotOptions == HRead(h1, Ref(root), "plotOptions")
        h2 == HEnsure(h1, plotOptions, "pie")
        pieOptions == HRead(h2, plotOptions, "pie")
        h3 == Heap_merge(h2, pieOptions, "donut", config)
        donut == HRead(h3, pieOptions, "donut")
        labels == HRead(h3, donut, "labels")
        cl == HRead(h, config, "labels")
        part(k) == MergeMap(HSpread(h3, HRead(h3, labels, k)),
                            HSpread(h3, HRead(h3, cl, k)))
        h4 == h3 \o <<part("name"), part("value"), part("total")>>
    IN  IF Truthy(cl)
        THEN HAssignNew(h4, donut, "labels",
                        MergeMap(MergeMap(HSpread(h4, labels), HSpread(h4, cl)),
                                 [k \in LabelParts |->
                                    Ref(Len(h3) + (CASE k = "name" -> 1
                                                     [] k = "value" -> 2
                                                     [] k = "total" -> 3))]))
        ELSE h3

\* the calls made with identity tracked: the setter, the component it is called
\* on, the path of the sub-mapping it merges into, and the config literal
HeapCalls ==
    { [op |-> "Tooltip.style", on |-> "tooltip", at |-> <<"tooltip", "style">>,
       arg |-> Obj([fontSize |-> Str("12px")])],
      [op |-> "Tooltip.style", on |-> "tooltip", at |-> <<"tooltip", "style">>,
       arg |-> Obj([fontFamily |-> Str("Arial")])],
      [op |-> "Legend.labels", on |-> "legend", at |-> <<"legend", "labels">>,
       arg |-> Obj([useSeriesColors |-> Bool(TRUE)])],
      [op |-> "Axis.labels", on |-> "xaxis", at |-> <<"xaxis", "labels">>,
       arg |-> Obj([show |-> Bool(FALSE)])],
      [op |-> "Axis.labels", on |-> "xaxis", at |-> <<"xaxis", "labels">>,
       arg |-> Obj([style |-> Obj([fontSize |-> Str("12px")])])],
      [op |-> "Axis.labels", on |-> "xaxis", at |-> <<"xaxis", "labels">>,
       arg |-> Obj([style |-> Obj([colors |-> Str("red")])])],
      [op |-> "Chart.states", on |-> "chart", at |-> <<"states">>,
       arg |-> Obj([active |-> Obj([allowMultipleDataPointsSelection |-> Bool(TRUE)])])],
      [op |-> "Chart.states", on |-> "chart", at |-> <<"states">>,
       arg |-> Obj([active |-> Obj([filter |-> Obj([type |-> Str("darken")])])])],
      [op |-> "Pie.donut", on |-> "pie", at |-> <<"plotOptions", "pie", "donut">>,
       arg |-> Obj([size |-> Str("70%")])],
      [op |-> "Pie.donut", on |-> "pie", at |-> <<"plotOptions", "pie", "donut">>,
       arg |-> Obj([labels |-> Obj([show |-> Bool(TRUE),
                                    name |-> Obj([show |-> Bool(TRUE)])])])] }

\* the caller writes a config literal, keeps it, and passes it to a setter
HeapCall ==
    \E c \in HeapCalls :
        LET config == Ref(Len(heap) + 1)
            h == Store(heap, c.arg)
        IN  /\ budget > 0
            /\ heap' =
                 CASE c.op = "Tooltip.style" ->
                        Heap_merge(h, HRead(h, Ref(root), "tooltip"), "style", config)
                   [] c.op = "Legend.labels" ->
                        Heap_merge(h, HRead(h, Ref(root), "legend"), "labels", config)
                   [] c.op = "Axis.labels" -> Heap_Axis_labels(h, config)
                   [] c.op = "Chart.states" -> Heap_Chart_states(h, config)
                   [] c.op = "Pie.donut" -> Heap_Pie_donut(h, config)
            /\ given' = given \cup {[ref |-> config, content |-> c.arg]}
            /\ tree' = Deref(heap', Ref(root))
            /\ ret' = This(c.on)
            /\ pre' = tree
            /\ last' = [op |-> c.op, on |-> c.on, arg |-> c.arg]
            /\ budget' = budget - 1
            /\ UNCHANGED <<cache, made, root, held, seen, kind>>

\* the caller reads a sub-mapping chart.options.<path> and keeps the object
HoldSubMapping ==
    \E path \in {<<"tooltip", "style">>, <<"legend", "labels">>, <<"xaxis", "labels">>} :
        /\ budget > 0
        /\ held' = HWalk(heap, Ref(root), path).v
        /\ seen' = Deref(heap, Ref(held'))
        /\ ret' = Ref(held')
        /\ pre' = tree
        /\ last' = [op |-> "options.<path>", on |-> "chart", arg |-> path]
        /\ budget' = budget - 1
        /\ UNCHANGED <<tree, cache, made, root, kind, heap, given>>

\* the objects a new line chart consists of, the options document first
Heap_constructor == Store(<<>>, Chart_constructor("line"))

\* merge-setters called with config objects the caller keeps, on a fresh line
\* chart whose sub-mappings the caller may hold
SpecHeap ==
    /\ tree = Chart_constructor("line")
    /\ pre = Chart_seed("line")
    /\ last = [op |-> "new Chart", on |-> "chart", arg |-> Str("line")]
    /\ kind = "line"
    /\ budget = MaxHeapSteps
    /\ ret = This("chart")
    /\ cache = [type \in PlotTypes |-> 0]
    /\ made = cache
    /\ root = 1
    /\ held = 0
    /\ seen = Chart_seed("line")
    /\ heap = Heap_constructor
    /\ given = {}
    /\ [][HeapCall \/ HoldSubMapping]_vars

\* pairs of setter calls on different components, on a fresh line chart and on
\* a Donut
SpecCommute ==
    /\ \/ /\ tree = Chart_constructor("line")
          /\ last = [op |-> "new Chart", on |-> "chart", arg |-> Str("line")]
          /\ kind = "line"
       \/ \E config \in {Obj([size |-> Str("70%"), labels |-> Obj([show |-> Bool(TRUE)])])} :
             /\ tree = Donut_constructor(config)
             /\ last = [op |-> "new Donut", on |-> "chart", arg |-> config]
             /\ kind = "donut"
    /\ pre = Chart_seed(kind)
    /\ seen = Chart_seed(kind)
    /\ budget = MaxCommuteSteps
    /\ ret = This("chart")
    /\ cache = [type \in PlotTypes |-> IF kind = "donut" /\ type = "pie" THEN 1 ELSE 0]
    /\ made = cache
    /\ root = 1
    /\ held = 0
    /\ heap = <<>>
    /\ given = {}
    /\ [][SetterPair]_vars

\* the container's own setters, on containers of several kinds, with the
\* chart block also removed by the caller
SpecFallback ==
    /\ InitWith(ChartTypes, MaxFallbackSteps)
    /\ [][ChartSetters \/ UnsetChartSlot]_vars

\* every setter of every component, axis.labels also with style: undefined
SpecScaffold ==
    /\ InitWith({"line"}, MaxScaffoldSteps)
    /\ [][\/ AxisSetters
          \/ AxisLabelsStyleUndefined
          \/ LeafSetters
          \/ PlotSetters
          \/ ChartSetters]_vars

\* the convenience forms of the subclasses: new Donut(config) and, on a
\* container made by new Bar(), horizontal(); then the plot-type setters
SpecConvenience ==
    /\ \/ /\ tree = Chart_constructor("bar")
          /\ last = [op |-> "new subclass", on |-> "chart", arg |-> Str("bar")]
          /\ kind = "bar"
       \/ \E config \in
               { Obj([size |-> Str("70%")]),
                 Obj([size |-> Str("65%"), background |-> Str("#fff")]),
                 Obj([labels |-> Obj([show |-> Bool(TRUE),
                                      name |-> Obj([fontSize |-> Str("22px")])])]) } :
             /\ tree = Donut_constructor(config)
             /\ last = [op |-> "new Donut", on |-> "chart", arg |-> config]
             /\ kind = "donut"
    /\ pre = Chart_seed(kind)
    /\ seen = Chart_seed(kind)
    /\ budget = MaxConvenienceSteps
    /\ ret = This("chart")
    /\ cache = [type \in PlotTypes |-> IF kind = "donut" /\ type = "pie" THEN 1 ELSE 0]
    /\ made = cache
    /\ root = 1
    /\ held = 0
    /\ heap = <<>>
    /\ given = {}
    /\ [][BarChart_horizontal \/ PlotSetters]_vars

\* the README's chain, link by link, on a fresh line or bar chart
SpecChain ==
    /\ InitWith(ChartTypes, Len(ReadmeChain))
    /\ [][ReadmeChain_next]_vars

\* reads of the options accessor between setters of the container, of its
\* leaf components, of an axis and of a plot-type component
SpecLive ==
    /\ InitWith({"line"}, MaxLiveSteps)
    /\ [][\/ Chart_options
          \/ Chart_title
          \/ Chart_series
          \/ AxisTitle
          \/ Tooltip_enabled
          \/ Bar_horizontal]_vars

\* the axis setters, with the yaxis slot also replaced by a scalar
SpecSlot ==
    /\ InitWith({"line"}, MaxSlotSteps)
    /\ [][AxisSetters \/ AssignYaxisScalar]_vars

\* every builder operation, on a container made by Chart.create, by a
\* subclass constructor (new Line(), new Bar(), ...: super('<kind>') and
\* nothing else) or by new Donut(config)
SpecKind ==
    /\ \/ \E type \in ChartKinds :
             /\ tree = Chart_create(type)
             /\ last = [op |-> "Chart.create", on |-> "chart", arg |-> Str(type)]
             /\ kind = type
       \/ \E type \in ChartKinds \ {"donut"} :
             /\ tree = Chart_constructor(type)
             /\ last = [op |-> "new subclass", on |-> "chart", arg |-> Str(type)]
             /\ kind = type
       \/ \E config \in {EmptyObj, Obj([size |-> Str("70%")])} :
             /\ tree = Donut_constructor(config)
             /\ last = [op |-> "new Donut", on |-> "chart", arg |-> config]
             /\ kind = "donut"
    /\ pre = Chart_seed(kind)
    /\ seen = Chart_seed(kind)
    /\ budget = MaxKindSteps
    /\ ret = This("chart")
    /\ cache = [type \in PlotTypes |-> IF kind = "donut" /\ type = "pie" THEN 1 ELSE 0]
    /\ made = cache
    /\ root = 1
    /\ held = 0
    /\ heap = <<>>
    /\ given = {}
    /\ [][AxisSetters \/ LeafSetters \/ PlotSetters \/ ChartSetters]_vars

----------------------------------------------------------------------------
(* Properties.                                                             *)

\* the properties of a mapping, none when x is not a mapping
MapOf(x) == IF IsObj(x) THEN x.v ELSE EmptyMap

\* m2 is m overlaid by p: p's keys carry p's values, m's other keys carry m's
\* values, and there are no further keys
IsOverlay(m2, m, p) ==
    /\ DOMAIN m2 = DOMAIN m \cup DOMAIN p
    /\ \A k \in DOMAIN p : m2[k] = p[k]
    /\ \A k \in DOMAIN m \ DOMAIN p : m2[k] = m[k]

\* every key of m that p does not name is in m2 with m's value
Survives(m2, m, p) == \A k \in DOMAIN m \ DOMAIN p : k \in DOMAIN m2 /\ m2[k] = m[k]

DonutLabels(o) == GetPath(o, <<"plotOptions", "pie", "donut", "labels">>)

\* C1: when donut.labels holds content under value and total, donut(config)
\* with a config whose labels names only `name` leaves labels.value and
\* labels.total as they were and merges the new name keys into labels.name.
C1_DonutDeepMergeScoping ==
    ( /\ last.op = "Pie.donut"
      /\ Keys(Get(last.arg, "labels")) = {"name"}
      /\ Keys(Get(DonutLabels(pre), "value")) # {}
      /\ Keys(Get(DonutLabels(pre), "total")) # {} )
    => /\ Get(DonutLabels(tree), "value") = Get(DonutLabels(pre), "value")
       /\ Get(DonutLabels(tree), "total") = Get(DonutLabels(pre), "total")
       /\ IsOverlay(MapOf(Get(DonutLabels(tree), "name")),
                    MapOf(Get(DonutLabels(pre), "name")),
                    MapOf(GetPath(last.arg, <<"labels", "name">>)))

AxisLabelsOf(o, a) == Get(getAxisConfig(o, a), "labels")

\* C2: labels(partial) shallow-merges partial into the resolved axis's labels
\* and, when partial has a style, shallow-merges it into the existing
\* labels.style: the style keys partial.style does not name survive.
C2_AxisLabelsStyleMerge ==
    ( /\ last.op = "Axis.labels"
      /\ IsObj(getAxisConfig(pre, last.on)) )
    => /\ \A k \in Keys(last.arg) \ {"style"} :
              Get(AxisLabelsOf(tree, last.on), k) = Get(last.arg, k)
       /\ Survives(MapOf(AxisLabelsOf(tree, last.on)),
                   MapOf(AxisLabelsOf(pre, last.on)), MapOf(last.arg))
       /\ Truthy(Get(last.arg, "style")) =>
              IsOverlay(MapOf(Get(AxisLabelsOf(tree, last.on), "style")),
                        MapOf(Get(AxisLabelsOf(pre, last.on), "style")),
                        MapOf(Get(last.arg, "style")))

\* what the resolved axis holds right after construction
AxisScaffoldDoc ==
    Obj([title |-> EmptyObj, labels |-> Obj([style |-> EmptyObj]),
         axisBorder |-> EmptyObj, axisTicks |-> EmptyObj, crosshairs |-> EmptyObj])

\* the document the end-to-end scenario states
ScenarioDoc ==
    Obj([chart |-> Obj([type |-> Str("line"), height |-> Num(350)]),
         series |-> Arr(<<Obj([name |-> Str("S1"),
                               data |-> Arr(<<Num(1), Num(2), Num(3)>>)])>>),
         title |-> Obj([text |-> Str("Sample")]),
         xaxis |-> Obj([categories |-> Arr(<<Str("Jan"), Str("Feb"), Str("Mar")>>),
                        title |-> Obj([text |-> Str("Month")]),
                        labels |-> Obj([style |-> EmptyObj]),
                        axisBorder |-> EmptyObj, axisTicks |-> EmptyObj,
                        crosshairs |-> EmptyObj]),
         yaxis |-> Obj([title |-> Obj([text |-> Str("Value")]),
                        labels |-> Obj([style |-> EmptyObj]),
                        axisBorder |-> EmptyObj, axisTicks |-> EmptyObj,
                        crosshairs |-> EmptyObj])])

\* the keys the other components create when the container is constructed
ComponentScaffoldDoc ==
    Obj([tooltip |-> Obj([style |-> EmptyObj, x |-> EmptyObj, y |-> EmptyObj]),
         legend |-> Obj([labels |-> EmptyObj, markers |-> EmptyObj,
                         itemMargin |-> EmptyObj]),
         grid |-> Obj([xaxis |-> Obj([lines |-> EmptyObj]),
                       yaxis |-> Obj([lines |-> EmptyObj]),
                       padding |-> EmptyObj]),
         dataLabels |-> Obj([style |-> EmptyObj, background |-> EmptyObj]),
         markers |-> Obj([hover |-> EmptyObj]),
         theme |-> Obj([monochrome |-> EmptyObj]),
         plotOptions |-> EmptyObj])

\* the scenario's six calls, and no other axis call, have shaped the document
ScenarioApplied ==
    /\ GetPath(tree, <<"title", "text">>) = Str("Sample")
    /\ GetPath(tree, <<"chart", "height">>) = Num(350)
    /\ Get(tree, "series") = Get(ScenarioDoc, "series")
    /\ GetPath(tree, <<"xaxis", "categories">>) = GetPath(ScenarioDoc, <<"xaxis", "categories">>)
    /\ GetPath(tree, <<"xaxis", "title", "text">>) = Str("Month")
    /\ GetPath(tree, <<"yaxis", "title", "text">>) = Str("Value")
    /\ "categories" \notin Keys(Get(tree, "yaxis"))

\* C3 as stated: after the scenario's calls the exported document is exactly
\* the stated one, with the keys chart, series, title, xaxis, yaxis only.
C3_ScenarioExactDoc == ScenarioApplied => tree = ScenarioDoc

\* C3 amended: after the scenario's calls the exported document is the stated
\* one under chart, series, title, xaxis and yaxis, together with the empty
\* scaffolding of tooltip, legend, grid, dataLabels, markers, theme, plotOptions.
C3_ScenarioDocWithScaffolding ==
    ScenarioApplied =>
        /\ tree = Obj(MergeMap(ScenarioDoc.v, ComponentScaffoldDoc.v))
        /\ \A k \in Keys(ScenarioDoc) : Get(tree, k) = Get(ScenarioDoc, k)
        /\ Keys(tree) = Keys(ScenarioDoc) \cup Keys(ComponentScaffoldDoc)

C3_Witness == ScenarioApplied /\ budget = 0

\* the single-level merge-setters and the sub-mapping each one merges into
MergeSetterPath ==
    "Tooltip.style" :> <<"tooltip", "style">> @@
    "Legend.labels" :> <<"legend", "labels">> @@
    "Legend.markers" :> <<"legend", "markers">> @@
    "Legend.itemMargin" :> <<"legend", "itemMargin">> @@
    "Grid.padding" :> <<"grid", "padding">> @@
    "DataLabels.style" :> <<"dataLabels", "style">> @@
    "DataLabels.background" :> <<"dataLabels", "background">> @@
    "Markers.hover" :> <<"markers", "hover">> @@
    "Theme.monochrome" :> <<"theme", "monochrome">> @@
    "Bar.colors" :> <<"plotOptions", "bar", "colors">> @@
    "Heatmap.colorScale" :> <<"plotOptions", "heatmap", "colorScale">> @@
    "RadialBar.hollow" :> <<"plotOptions", "radialBar", "hollow">> @@
    "RadialBar.track" :> <<"plotOptions", "radialBar", "track">>

\* the axis merge-setters and the field of the resolved axis each one merges into
AxisMergeSetterField ==
    "Axis.axisBorder" :> "axisBorder" @@
    "Axis.axisTicks" :> "axisTicks" @@
    "Axis.crosshairs" :> "crosshairs"

\* C4: after a single-level merge-setter called with partial P on a
\* sub-mapping M, the sub-mapping is M overlaid by P: P's keys carry P's
\* values, M's other keys keep M's values, and no other key appears.
C4_ShallowMergePreservesSiblings ==
    /\ last.op \in DOMAIN MergeSetterPath =>
          /\ IsObj(GetPath(tree, MergeSetterPath[last.op]))
          /\ IsOverlay(MapOf(GetPath(tree, MergeSetterPath[last.op])),
                       MapOf(GetPath(pre, MergeSetterPath[last.op])),
                       MapOf(last.arg))
    /\ last.op \in DOMAIN AxisMergeSetterField =>
          /\ IsObj(Get(getAxisConfig(tree, last.on), AxisMergeSetterField[last.op]))
          /\ IsOverlay(MapOf(Get(getAxisConfig(tree, last.on), AxisMergeSetterField[last.op])),
                       MapOf(Get(getAxisConfig(pre, last.on), AxisMergeSetterField[last.op])),
                       MapOf(last.arg))

\* a merge-setter met a sub-mapping with a key the partial does not name, a
\* key both name with different values, and the partial brought a new key
C4_Witness ==
    /\ last.op \in DOMAIN MergeSetterPath
    /\ LET m == MapOf(GetPath(pre, MergeSetterPath[last.op]))
           p == MapOf(last.arg)
       IN  /\ DOMAIN m \ DOMAIN p # {}
           /\ DOMAIN p \ DOMAIN m # {}
           /\ \E k \in DOMAIN m \cap DOMAIN p : m[k] # p[k]

ConstructorOps ==
    { "new Axis", "new Tooltip", "new Legend", "new Grid", "new DataLabels",
      "new Markers", "new Theme", "new PlotOptionsManager" }

C6_EmptyYaxisSequenceNormalized ==
    /\ ( /\ last.op = "new Axis"
         /\ last.on = "yaxis"
         /\ Get(pre, "yaxis") = Arr(<<>>) )
       => Get(tree, "yaxis") = Arr(<<AxisScaffoldDoc>>)
    /\ ( /\ last.op = "Axis.title"
         /\ last.on = "yaxis"
         /\ Get(pre, "yaxis") = Arr(<<AxisScaffoldDoc>>) )
       => Get(tree, "yaxis") =
              Arr(<<Obj([title |-> Obj([text |-> last.arg]),
                         labels |-> Obj([style |-> EmptyObj]),
                         axisBorder |-> EmptyObj, axisTicks |-> EmptyObj,
                         crosshairs |-> EmptyObj])>>)

\* title(text) was called on the one-element sequence construction left
C6_Witness ==
    /\ last.op = "Axis.title"
    /\ last.on = "yaxis"
    /\ Get(pre, "yaxis") = Arr(<<AxisScaffoldDoc>>)
    /\ Len(Get(tree, "yaxis").v) = 1

AxisOps ==
    { "new Axis", "Axis.title", "Axis.categories", "Axis.type", "Axis.labels",
      "Axis.range", "Axis.tickAmount", "Axis.axisBorder", "Axis.axisTicks",
      "Axis.crosshairs" }

\* the setters that store their argument under one field of the resolved axis
AxisFieldSetter ==
    "Axis.categories" :> "categories" @@
    "Axis.type" :> "type" @@
    "Axis.tickAmount" :> "tickAmount"

\* C7: when the yaxis slot is a sequence of one or more elements, constructing
\* the yaxis component and each of its setters write element 0 only: the
\* sequence keeps its length and its elements at index 1 and higher, and the
\* rest of the document is untouched.
C7_YaxisSequenceElementZeroOnly ==
    ( /\ last.on = "yaxis"
      /\ last.op \in AxisOps
      /\ IsArr(Get(pre, "yaxis"))
      /\ Len(Get(pre, "yaxis").v) >= 1 )
    => /\ IsArr(Get(tree, "yaxis"))
       /\ Len(Get(tree, "yaxis").v) = Len(Get(pre, "yaxis").v)
       /\ \A i \in 2..Len(Get(pre, "yaxis").v) :
              Get(tree, "yaxis").v[i] = Get(pre, "yaxis").v[i]
       /\ \A k \in (Keys(pre) \cup Keys(tree)) \ {"yaxis"} : Get(tree, k) = Get(pre, k)
       /\ last.op \in DOMAIN AxisFieldSetter =>
              Get(Get(tree, "yaxis").v[1], AxisFieldSetter[last.op]) = last.arg
       /\ last.op = "Axis.title" /\ Truthy(Get(Get(pre, "yaxis").v[1], "title")) =>
              GetPath(Get(tree, "yaxis").v[1], <<"title", "text">>) = last.arg

\* a yaxis setter wrote into element 0 of a two-element sequence
C7_Witness ==
    /\ last.op = "Axis.categories"
    /\ last.on = "yaxis"
    /\ IsArr(Get(pre, "yaxis"))
    /\ Len(Get(pre, "yaxis").v) = 2
    /\ Get(Get(tree, "yaxis").v[1], "categories") = last.arg
    /\ Get(tree, "yaxis").v[2] = Obj([opposite |-> Bool(TRUE)])

\* C8: states(partial) merges three ways: for each of normal, hover and
\* active whose filter partial supplies, the keys of the existing filter that
\* partial's filter does not name survive and partial's filter keys overwrite;
\* a state partial does not name is left as it was.
C8_StatesDeepMerge ==
    last.op = "Chart.states" =>
        \A s \in StateNames :
            /\ Truthy(GetPath(last.arg, <<s, "filter">>)) =>
                  IsOverlay(MapOf(GetPath(tree, <<"states", s, "filter">>)),
                            MapOf(GetPath(pre, <<"states", s, "filter">>)),
                            MapOf(GetPath(last.arg, <<s, "filter">>)))
            /\ s \notin Keys(last.arg) =>
                  GetPath(tree, <<"states", s>>) = GetPath(pre, <<"states", s>>)

AnimationParts == {"animateGradually", "dynamicAnimation"}

\* C9: animations(partial) shallow-merges partial into chart.animations and
\* merges animateGradually and dynamicAnimation one level deeper: the keys of
\* the existing mapping that partial's does not name survive.
C9_AnimationsDeepMerge ==
    last.op = "Chart.animations" =>
        /\ \A k \in Keys(last.arg) \ AnimationParts :
              GetPath(tree, <<"chart", "animations", k>>) = Get(last.arg, k)
        /\ Survives(MapOf(GetPath(tree, <<"chart", "animations">>)),
                    MapOf(GetPath(pre, <<"chart", "animations">>)), MapOf(last.arg))
        /\ \A part \in AnimationParts :
              Truthy(Get(last.arg, part)) =>
                  IsOverlay(MapOf(GetPath(tree, <<"chart", "animations", part>>)),
                            MapOf(GetPath(pre, <<"chart", "animations", part>>)),
                            MapOf(Get(last.arg, part)))

RadialDataLabels(o) == GetPath(o, <<"plotOptions", "radialBar", "dataLabels">>)

\* C10: dataLabels(partial) shallow-merges partial into
\* plotOptions.radialBar.dataLabels and merges name, value and total one level
\* deeper: of each one partial supplies the existing keys it does not name
\* survive, and each one partial does not supply is left as it was.
C10_RadialDataLabelsDeepMerge ==
    last.op = "RadialBar.dataLabels" =>
        /\ \A k \in Keys(last.arg) \ LabelParts :
              Get(RadialDataLabels(tree), k) = Get(last.arg, k)
        /\ Survives(MapOf(RadialDataLabels(tree)), MapOf(RadialDataLabels(pre)),
                    MapOf(last.arg))
        /\ \A part \in LabelParts :
              IF Truthy(Get(last.arg, part))
              THEN IsOverlay(MapOf(Get(RadialDataLabels(tree), part)),
                             MapOf(Get(RadialDataLabels(pre), part)),
                             MapOf(Get(last.arg, part)))
              ELSE Get(RadialDataLabels(tree), part) = Get(RadialDataLabels(pre), part)

\* the grid setters that take an axis config, and the axis each addresses
GridAxisSetter == "Grid.xaxis" :> "xaxis" @@ "Grid.yaxis" :> "yaxis"

\* C11 as stated: Grid.xaxis(partial) and Grid.yaxis(partial) shallow-merge
\* partial into grid.xaxis (grid.yaxis) at the immediate level, so a supplied
\* lines value replaces the existing lines mapping wholesale and every key of
\* partial appears in grid.xaxis (grid.yaxis) afterwards.
C11_GridAxisShallowMerge ==
    last.op \in DOMAIN GridAxisSetter =>
        IsOverlay(MapOf(GetPath(tree, <<"grid", GridAxisSetter[last.op]>>)),
                  MapOf(GetPath(pre, <<"grid", GridAxisSetter[last.op]>>)),
                  MapOf(last.arg))

\* C11 amended: Grid.xaxis(partial) and Grid.yaxis(partial) read partial.lines
\* only and shallow-merge it into the existing grid.xaxis.lines
\* (grid.yaxis.lines): the keys of the existing lines that partial.lines does
\* not name survive, and nothing else in the document changes.
C11_GridAxisMergesLines ==
    last.op \in DOMAIN GridAxisSetter =>
        LET a == GridAxisSetter[last.op]
        IN  /\ IsOverlay(MapOf(GetPath(tree, <<"grid", a, "lines">>)),
                         MapOf(GetPath(pre, <<"grid", a, "lines">>)),
                         MapOf(Get(last.arg, "lines")))
            /\ tree = SetPath(pre, <<"grid", a, "lines">>,
                              GetPath(tree, <<"grid", a, "lines">>))

\* a grid axis setter was given an empty lines mapping where lines held a key
C11_Witness ==
    /\ last.op \in DOMAIN GridAxisSetter
    /\ Get(last.arg, "lines") = EmptyObj
    /\ Keys(GetPath(pre, <<"grid", GridAxisSetter[last.op], "lines">>)) # {}
    /\ GetPath(tree, <<"grid", GridAxisSetter[last.op], "lines">>)
          = GetPath(pre, <<"grid", GridAxisSetter[last.op], "lines">>)

\* the parts of the path a setOption call was given
PartsOf(arg) ==
    Split([i \in DOMAIN Get(arg, "path").v |-> Get(arg, "path").v[i].v])

\* C12: for every tree, path and value, set(path, value) leaves value at the
\* path, and at every prefix of the path a mapping that holds the next segment
\* beside exactly the keys and values the prefix held before (none when the
\* prefix was absent or null): missing structure is created, the last segment
\* is overwritten, and nothing off the path changes.
C12_PathSetCreatesMissingStructure ==
    last.op = "ChartComponent.setOption" =>
        LET parts == PartsOf(last.arg)
        IN  /\ GetPath(tree, parts) = Get(last.arg, "value")
            /\ \A i \in 0..(Len(parts) - 1) :
                   LET old == MapOf(GetPath(pre, SubSeq(parts, 1, i)))
                       new == GetPath(tree, SubSeq(parts, 1, i))
                   IN  /\ IsObj(new)
                       /\ DOMAIN new.v = DOMAIN old \cup {parts[i + 1]}
                       /\ \A k \in DOMAIN old \ {parts[i + 1]} : new.v[k] = old[k]

\* the setters that store a list, and the top-level key each one assigns
ListSetterKey ==
    "Chart.series" :> "series" @@ "Chart.colors" :> "colors" @@
    "Chart.responsive" :> "responsive"

\* C13: series(list), colors(list) and responsive(list) replace the stored
\* value entirely: afterwards the key holds exactly the list passed, with no
\* entry of the earlier list merged in, and every other key of the tree is
\* unchanged.
C13_ListSettersReplaceWholesale ==
    last.op \in DOMAIN ListSetterKey =>
        /\ Get(tree, ListSetterKey[last.op]) = last.arg
        /\ DOMAIN tree.v = DOMAIN pre.v \cup {ListSetterKey[last.op]}
        /\ \A k \in DOMAIN pre.v \ {ListSetterKey[last.op]} : tree.v[k] = pre.v[k]

\* a list setter was called over a different, non-empty list set before
C13_Witness ==
    /\ last.op \in DOMAIN ListSetterKey
    /\ IsArr(Get(pre, ListSetterKey[last.op]))
    /\ Len(Get(pre, ListSetterKey[last.op]).v) > 0
    /\ Get(pre, ListSetterKey[last.op]) # last.arg
    /\ Get(tree, ListSetterKey[last.op]) = last.arg

\* the per-type keys plotOptions holds in the document o
PlotKeys(o) == Keys(Get(o, "plotOptions")) \cap PlotTypes

\* C14: right after construction plotOptions is an empty mapping; an accessor
\* call changes nothing in the tree; the key of a plot type is in plotOptions
\* exactly when it was there before or the operation was a setter of that
\* type's component, so a setter never creates the key of another type.
C14_LazyPlotTypeKeys ==
    /\ last.op = "new Chart" => Get(tree, "plotOptions") = EmptyObj
    /\ last.op = "PlotOptionsManager.accessor" => tree = pre
    /\ last.op # "new Chart" =>
          \A type \in PlotTypes :
              type \in PlotKeys(tree) <=> (type \in PlotKeys(pre) \/ last.on = type)
    /\ last.on \in PlotTypes => IsObj(GetPath(tree, <<"plotOptions", last.on>>))

\* after an accessor call that created no key, the first setter of a type
\* created that type's key beside the key of another type
C14_Witness ==
    /\ last.on \in PlotTypes
    /\ last.on \notin PlotKeys(pre)
    /\ PlotKeys(pre) # {}
    /\ PlotKeys(tree) = PlotKeys(pre) \cup {last.on}
    /\ \E type \in PlotTypes : cache[type] # 0 /\ type \notin PlotKeys(tree)

\* C15: across any sequence of accessor and setter calls, every call of an
\* accessor returns the instance the first call of that accessor created, and
\* the manager constructs at most one instance per plot type.
C15_ManagerCachesOneInstance ==
    /\ \A type \in PlotTypes : made[type] <= 1 /\ cache[type] = made[type]
    /\ last.op = "PlotOptionsManager.accessor" =>
          ret = [t |-> "inst", v |-> <<last.arg.v, 1>>]

\* every call of the run was a call of one and the same accessor: no setter
\* has created a key, and one component only has been constructed
C15_Witness ==
    /\ last.op = "PlotOptionsManager.accessor"
    /\ budget = 0
    /\ PlotKeys(tree) = {}
    /\ made[last.arg.v] = 1
    /\ \A type \in PlotTypes \ {last.arg.v} : made[type] = 0

\* C16: a container made by Chart.create(type), by a subclass constructor or
\* by new Donut(config) starts with chart.type equal to its kind and with an
\* empty series list, and chart.type still equals that kind after any builder
\* operations
C16_ChartKindDiscriminant ==
    /\ GetPath(tree, <<"chart", "type">>) = Str(kind)
    /\ last.op \in {"Chart.create", "new subclass", "new Donut"}
          => Get(tree, "series") = Arr(<<>>)

\* a setter that writes into the chart block has run on a chart that is not
\* a line chart
C16_Witness ==
    /\ last.op \in {"Chart.height", "Chart.width", "Chart.animations"}
    /\ kind = "donut"
    /\ Get(tree, "chart") # Get(pre, "chart")

\* the setters of the Axis component
AxisSetterOps ==
    { "Axis.title", "Axis.categories", "Axis.type", "Axis.labels", "Axis.range",
      "Axis.tickAmount", "Axis.axisBorder", "Axis.axisTicks", "Axis.crosshairs" }

\* a yaxis slot that holds neither a mapping nor a sequence with an element
ScalarSlot(o) ==
    \/ Get(o, "yaxis").t \in {"undef", "null", "bool", "num", "str"}
    \/ Get(o, "yaxis") = Arr(<<>>)

\* C17: when the yaxis slot holds a scalar, truthy or falsy, or an empty
\* sequence, every setter of the yaxis component returns its instance without
\* raising and leaves the document unchanged
C17_SilentNoOpOnScalarSlot ==
    (last.op \in AxisSetterOps /\ last.on = "yaxis" /\ ScalarSlot(pre))
        => ret = This("yaxis") /\ tree = pre

\* C18: the options accessor returns the root object itself, no operation
\* replaces the root, and so the document seen through a reference read
\* earlier is at every moment the document the container and its components
\* have written
C18_LiveExport ==
    /\ root = 1
    /\ last.op = "Chart.options" => ret = [t |-> "ref", v |-> root]
    /\ held # 0 => held = root /\ seen = tree

\* a component has changed the document after the caller read the accessor
C18_Witness ==
    /\ held # 0
    /\ last.op \in {"Axis.title", "Tooltip.enabled", "Bar.horizontal"}
    /\ tree # pre
    /\ seen = tree

\* the operations of the model that are not setters
NotSetters ==
    { "new Chart", "new Axis", "new Tooltip", "new Legend", "new Grid",
      "new DataLabels", "new Markers", "new Theme", "new PlotOptionsManager",
      "options.yaxis =", "options.chart =", "two setters" }

\* the container and the component instances it holds
Instances ==
    { "chart", "xaxis", "yaxis", "tooltip", "legend", "grid", "dataLabels",
      "markers", "theme", "bar", "pie", "radialBar", "heatmap" }

C20_ReadmeChainCompletes ==
    /\ ret # TypeError
    /\ budget = 0 =>
          /\ ret = [t |-> "this", v |-> "chart"]
          /\ Member(ret, "options") = [t |-> "ref", v |-> root]
          /\ GetPath(tree, <<"title", "text">>).t = "str"
          /\ Get(tree, "series") # Undef
          /\ GetPath(tree, <<"xaxis", "categories">>).t = "arr"
          /\ GetPath(tree, <<"xaxis", "title", "text">>).t = "str"
          /\ GetPath(tree, <<"yaxis", "title", "text">>).t = "str"

\* C21: new Donut(config) leaves the document that a container of kind donut
\* holds after plotOptions.pie().donut(config), with every key of config under
\* plotOptions.pie.donut; and horizontal(b) of a Bar container leaves the
\* document plotOptions.bar().horizontal(b) leaves
C21_ConvenienceFormsEquivalent ==
    /\ last.op = "new Donut" =>
          /\ tree = Pie_donut(Chart_constructor("donut"), last.arg)
          /\ Keys(last.arg) \subseteq Keys(GetPath(tree, <<"plotOptions", "pie", "donut">>))
    /\ (last.op = "Bar.horizontal" /\ last.on = "chart") =>
          /\ tree = PlotField(pre, "bar", "horizontal", last.arg)
          /\ GetPath(tree, <<"plotOptions", "bar", "horizontal">>) = last.arg

\* the Bar container's horizontal() has changed a flag a plot-type setter had
\* written
C21_Witness ==
    /\ last.op = "Bar.horizontal"
    /\ last.on = "chart"
    /\ GetPath(pre, <<"plotOptions", "bar", "horizontal">>) = Bool(TRUE)
    /\ GetPath(tree, <<"plotOptions", "bar", "horizontal">>) = Bool(FALSE)

\* the children every component's constructor creates, as paths from the root
ScaffoldPaths ==
    UNION { { <<a, "title">>, <<a, "labels">>, <<a, "labels", "style">>,
              <<a, "axisBorder">>, <<a, "axisTicks">>, <<a, "crosshairs">> } :
            a \in AxisTypes }
    \cup { <<"tooltip", "style">>, <<"tooltip", "x">>, <<"tooltip", "y">>,
           <<"legend", "labels">>, <<"legend", "markers">>, <<"legend", "itemMargin">>,
           <<"grid", "xaxis", "lines">>, <<"grid", "yaxis", "lines">>,
           <<"grid", "padding">>,
           <<"dataLabels", "style">>, <<"dataLabels", "background">>,
           <<"markers", "hover">>, <<"theme", "monochrome">>, <<"plotOptions">> }

\* every child the constructors created is a mapping in the document o
Scaffolded(o) == \A path \in ScaffoldPaths : IsObj(GetPath(o, path))

\* C22: after construction and after any sequence of builder operations every
\* scaffold child is a mapping, and no setter raises for want of one
C22_ScaffoldInvariant ==
    /\ Scaffolded(tree)
    /\ ret # TypeError

\* C23: for every document, also one where a prefix of the path holds a
\* string, a number or a boolean, and for every path and value, path-set
\* returns without raising, and the read along the path then gives the value
C23_PathSetNeverFails ==
    last.op = "ChartComponent.setOption" =>
        /\ ret # TypeError
        /\ GetPath(tree, PartsOf(last.arg)) = Get(last.arg, "value")

\* C24: whenever the axis resolves to a mapping (xaxis, a yaxis mapping, or
\* element 0 of a yaxis sequence), whatever the mapping holds, title(text)
\* leaves title.text of the resolved axis equal to text; it changes nothing
\* only when the axis resolves to no mapping
C24_AxisTitleWritesWhenAxisResolves ==
    last.op = "Axis.title" =>
        IF IsObj(getAxisConfig(pre, last.on))
        THEN GetPath(getAxisConfig(tree, last.on), <<"title", "text">>) = last.arg
        ELSE tree = pre

\* the document o without its key k: the keys it has besides k, with their values
Besides(o, k) == [kk \in Keys(o) \ {k} |-> Get(o, kk)]

\* C25: a setter of the xaxis component changes nothing but the value under
\* xaxis, one of the yaxis component nothing but yaxis, one of a leaf component
\* nothing but the component's own top-level key, and one of a plot-type
\* component nothing but plotOptions.<its type>
C25_SingleKeyOwnership ==
    last.op \notin NotSetters =>
        /\ last.on \in Instances \ ({"chart"} \cup PlotTypes) =>
              Besides(tree, last.on) = Besides(pre, last.on)
        /\ last.on \in PlotTypes =>
              /\ Besides(tree, "plotOptions") = Besides(pre, "plotOptions")
              /\ Besides(Get(tree, "plotOptions"), last.on)
                    = Besides(Get(pre, "plotOptions"), last.on)

\* a plot-type setter has written its type's mapping while the mapping of
\* another plot type was there
C25_Witness ==
    /\ last.on = "bar"
    /\ "pie" \in PlotKeys(pre)
    /\ GetPath(tree, <<"plotOptions", "bar">>) # GetPath(pre, <<"plotOptions", "bar">>)

\* the setters that write into the chart block, and the field each one writes
ChartBlockField ==
    "Chart.height" :> "height" @@ "Chart.width" :> "width" @@
    "Chart.animations" :> "animations"

C27_SettersOfDifferentComponentsCommute ==
    last.op = "two setters" =>
        /\ ret # TypeError
        /\ tree = Do(Do(pre, last.arg[2]), last.arg[1])

\* two setters of different plot types have run, each creating its type's
\* mapping
C27_Witness ==
    /\ last.op = "two setters"
    /\ {last.arg[1].on, last.arg[2].on} = {"bar", "heatmap"}
    /\ PlotKeys(pre) = {}
    /\ PlotKeys(tree) = {"bar", "heatmap"}

\* C28: a config object the caller passed to a merge-setter, with every mapping
\* nested in it, has after the call and after every later call the content it
\* had when it was passed
C28_CallerInputNeverMutated ==
    \A g \in given : Deref(heap, g.ref) = g.content

\* a mapping nested in a config the caller passed is the object the tree holds,
\* after a later call of another setter
C28_Witness ==
    /\ last.op = "Tooltip.style"
    /\ \E g \in given :
          /\ "active" \in DOMAIN g.content.v
          /\ HWalk(heap, Ref(root), <<"states", "active">>) = HRead(heap, g.ref, "active")
          /\ Deref(heap, g.ref) = g.content

\* the paths of merge-setters at which the tree holds the held object
HeldAt(h) == {c.at : c \in {cc \in HeapCalls : HWalk(h, Ref(root), cc.at) = Ref(held)}}

\* C29: a sub-mapping object obtained before a merge-setter call on that
\* sub-mapping is not the object stored in the tree after the call and shows
\* what it showed before, the tree holds the merged keys in another object, and
\* the root of the tree is the same object
C29_MergeSettersReplaceSubMapping ==
    [][\A c \in HeapCalls :
          (last'.op = c.op /\ last'.arg = c.arg /\ heap' # heap /\ c.at \in HeldAt(heap))
            => /\ HWalk(heap', Ref(root'), c.at) # Ref(held)
               /\ Deref(heap', Ref(held)) = Deref(heap, Ref(held))
               /\ Deref(heap', Ref(held)) = seen
               /\ \A k \in DOMAIN c.arg.v :
                     k \in DOMAIN Deref(heap', HWalk(heap', Ref(root'), c.at)).v
               /\ root' = root
               /\ held' = held]_vars

\* the tooltip style object was held, tooltip.style(config) was called, and
\* the tree shows a key the held object does not
C29_Witness ==
    /\ Ref(held) = HWalk(Heap_constructor, Ref(1), <<"tooltip", "style">>)
    /\ last.op = "Tooltip.style"
    /\ HWalk(heap, Ref(root), <<"tooltip", "style">>) # Ref(held)
    /\ seen = Deref(heap, Ref(held))
    /\ seen = EmptyObj
    /\ GetPath(tree, <<"tooltip", "style">>) = last.arg

\* the three label parts of a donut, written out
DonutLabelParts == {"name", "value", "total"}

\* donut.labels holds a mapping under each of the three parts, an empty one
\* where neither config.labels nor the labels before the call had the part
PartsSynthesized ==
    \A k \in DonutLabelParts :
        /\ IsObj(Get(DonutLabels(tree), k))
        /\ (k \notin Keys(Get(last.arg, "labels")) /\ k \notin Keys(DonutLabels(pre)))
              => Get(DonutLabels(tree), k) = EmptyObj

\* C30: after donut(config) with a config that has a labels field, donut.labels
\* holds name, value and total mappings, empty where nothing supplied them;
\* with a config that has no labels field, donut.labels is as it was
C30_DonutSynthesizesLabelParts ==
    last.op = "Pie.donut" =>
        IF "labels" \in Keys(last.arg)
        THEN PartsSynthesized
        ELSE DonutLabels(tree) = DonutLabels(pre)

\* C30 as the code has it: the parts are synthesized when config.labels is a
\* mapping; a labels field that is undefined replaces donut.labels like any
\* other field of config; without the field donut.labels is as it was
C30_DonutSynthesizesWhenLabelsIsMapping ==
    last.op = "Pie.donut" =>
        IF IsObj(Get(last.arg, "labels"))
        THEN PartsSynthesized
        ELSE IF "labels" \in Keys(last.arg)
             THEN DonutLabels(tree) = Get(last.arg, "labels")
             ELSE DonutLabels(tree) = DonutLabels(pre)

\* donut() was called with an empty labels mapping on a donut without labels,
\* and the three parts are there as empty mappings
C30_Witness ==
    /\ last.op = "Pie.donut"
    /\ Get(last.arg, "labels") = EmptyObj
    /\ Keys(DonutLabels(pre)) = {}
    /\ \A k \in DonutLabelParts : Get(DonutLabels(tree), k) = EmptyObj

====
